---- MODULE Spec2Model ----
(***************************************************************************)
(* GitHop ingestion pipeline: the cursor-driven sync run of GitHubService  *)
(* (fetchTopReposWithCursor, batchSaveRepositories, calculateAndSaveStats) *)
(* and the contributors refresh of WorkerService (updateContributors,      *)
(* fetchAndSaveContributors, fetchAndSaveRecentContributorsGraphQL,        *)
(* saveContributorsToDB), over the tables of init.sql.                     *)
(*                                                                         *)
(* Every await of the source is a step boundary.  A database transaction   *)
(* (BEGIN .. COMMIT) is one step that either applies all its statements    *)
(* or, on a failure inside it, rolls back and applies none.                *)
(* Timestamps written with NOW() are not carried (the clock is fixed).     *)
(***************************************************************************)
EXTENDS Integers, Sequences, FiniteSets, TLC

(***************************************************************************)
(* Bounds of the model.                                                    *)
(***************************************************************************)
\* number of repositories in the upstream search result
MaxRepos == 2
\* page size of the sync loop; the source uses 20 (part_001 line 35)
batchSize == 1
\* target of syncQuick; the source uses 300 (part_001 line 24)
QuickLimit == 1
\* target of syncComprehensive; the source uses 1000 (part_001 line 30)
ComprehensiveLimit == 2
\* commits per page of the commit history; the source uses 100 (index.ts line 453)
historyPageSize == 1
\* const maxPages = 5 (index.ts line 478)
maxPages == 5
\* contributors kept per repository: per_page of the REST request and the
\* slice of the fallback; the source uses 30 (index.ts lines 398, 522)
topContributors == 2
\* SELECT id, full_name FROM repositories LIMIT 300 (index.ts line 337)
selectLimit == 300
\* largest size of the connection pool, and most enrichment jobs in progress
MaxPool == 3
MaxJobs == 3
\* number of stored repositories the listing route is called over
MaxListed == 4
\* parseInt(req.query.limit) || 30 (index.ts line 96)
defaultLimit == 30
\* Math.min(.., 300) (index.ts line 96)
maxLimit == 300

Repos == 1..MaxRepos
Versions == {"s1", "s2", "s3"}
Null == -1

Min(a, b) == IF a < b THEN a ELSE b
Max(a, b) == IF a > b THEN a ELSE b
Range(s) == {s[i] : i \in DOMAIN s}

(***************************************************************************)
(* Upstream snapshots.  A repository node of the search result, as the     *)
(* GraphQL query of fetchBatchWithCursor returns it.  The upstream data is  *)
(* in one of two generations: the snapshots "s1" and "s2" of a repository  *)
(* differ in every field that can change upstream.  In "s3" the            *)
(* repositories have been renamed as well: each carries the name its       *)
(* predecessor in the ranking had.                                         *)
(* daysSincePush and releaseAge stand for pushedAt / publishedAt seen from *)
(* the fixed clock (Null: no timestamp, or no release).                    *)
(***************************************************************************)
Snapshot(g, v) ==
  [ databaseId            |-> g,
    nameWithOwner         |-> <<"owner", IF v = "s3" THEN g - 1 ELSE g>>,
    stargazerCount        |-> IF v = "s1" THEN 100 - g ELSE 200 - g,
    forkCount             |-> IF v = "s1" THEN 5 ELSE 6,
    issues                |-> IF v = "s1" THEN 3 ELSE 0,
    licenseKey            |-> IF v = "s1" THEN "mit" ELSE "apache-2.0",
    isArchived            |-> v = "s2",
    isDisabled            |-> FALSE,
    hasIssuesEnabled      |-> TRUE,
    hasDiscussionsEnabled |-> v = "s2",
    daysSincePush         |-> IF v = "s1" THEN 3 ELSE 400,
    releaseAge            |-> IF v = "s1" THEN Null ELSE 10,
    releasesTotalCount    |-> IF v = "s1" THEN 0 ELSE 1,
    historyTotalCount     |-> IF v = "s1" THEN 40 ELSE 41,
    languages             |-> IF v = "s1"
                              THEN << [name |-> "TypeScript", size |-> 30],
                                      [name |-> "CSS", size |-> 10] >>
                              ELSE << >> ]

(***************************************************************************)
(* Score Calculator.                                                       *)
(***************************************************************************)
Clamp(lo, hi, x) == Max(lo, Min(hi, x))

\* Math.log10(n), in millionths (rounded to the nearest), for the arguments the
\* model meets
Log10(n) ==
  CASE n = 1    -> 0
    [] n = 3    -> 477121
    [] n = 6    -> 778151
    [] n = 7    -> 845098
    [] n = 98   -> 1991226
    [] n = 99   -> 1995635
    [] n = 100  -> 2000000
    [] n = 198  -> 2296665
    [] n = 199  -> 2298853
    [] n = 200  -> 2301030
    [] n = 201  -> 2303196
    [] n = 1001 -> 3000434

\* Math.round(score * 100) / 100 of a score given in millionths: the result
\* in hundredths
RoundToHundredths(m) == (m + 5000) \div 10000

\* (variant: the halving comes last, after the open-issues term)
ActivityScoreHalvesLast(repo, daysSinceCommit) ==
  LET s0 == 100 * Log10(repo.stargazerCount + 1) + 50 * Log10(repo.forkCount + 1)
      s1 == IF daysSinceCommit # Null
            THEN IF daysSinceCommit <= 7 THEN s0 + 200 * 1000000
                 ELSE IF daysSinceCommit <= 30 THEN s0 + 100 * 1000000
                 ELSE IF daysSinceCommit <= 90 THEN s0 + 50 * 1000000
                 ELSE s0
            ELSE s0
      s2 == s1 + Min(repo.issues, 100) * 500000
      s3 == IF daysSinceCommit # Null /\ daysSinceCommit > 365 THEN s2 \div 2 ELSE s2
  IN  RoundToHundredths(s3)

\* (variant: an open issue counts 1, not 0.5)
ActivityScoreIssuesCountWhole(repo, daysSinceCommit) ==
  LET s0 == 100 * Log10(repo.stargazerCount + 1) + 50 * Log10(repo.forkCount + 1)
      s1 == IF daysSinceCommit # Null
            THEN IF daysSinceCommit <= 7 THEN s0 + 200 * 1000000
                 ELSE IF daysSinceCommit <= 30 THEN s0 + 100 * 1000000
                 ELSE IF daysSinceCommit <= 90 THEN s0 + 50 * 1000000
                 ELSE IF daysSinceCommit > 365 THEN s0 \div 2
                 ELSE s0
            ELSE s0
      s2 == s1 + Min(repo.issues, 100) * 1000000
  IN  RoundToHundredths(s2)

\* the activity score, in hundredths
calculateSimpleActivityScore(repo, daysSinceCommit) ==
  LET s0 == 100 * Log10(repo.stargazerCount + 1) + 50 * Log10(repo.forkCount + 1)
      s1 == IF daysSinceCommit # Null
            THEN IF daysSinceCommit <= 7 THEN s0 + 200 * 1000000
                 ELSE IF daysSinceCommit <= 30 THEN s0 + 100 * 1000000
                 ELSE IF daysSinceCommit <= 90 THEN s0 + 50 * 1000000
                 ELSE IF daysSinceCommit > 365 THEN s0 \div 2
                 ELSE s0
            ELSE s0
      s2 == s1 + Min(repo.issues, 100) * 500000
  IN  RoundToHundredths(s2)

\* (variant: a disabled repository keeps its score)
HealthScoreIgnoresDisabled(repo, daysSinceCommit) ==
  LET s0 == 50
      s1 == IF daysSinceCommit # Null
            THEN IF daysSinceCommit <= 7 THEN s0 + 30
                 ELSE IF daysSinceCommit <= 30 THEN s0 + 20
                 ELSE IF daysSinceCommit <= 90 THEN s0 + 10
                 ELSE IF daysSinceCommit > 365 THEN s0 - 20
                 ELSE s0
            ELSE s0
      s2 == IF repo.releaseAge # Null /\ repo.releaseAge <= 90 THEN s1 + 10 ELSE s1
      s3 == IF repo.hasIssuesEnabled /\ repo.issues > 0 THEN s2 + 5 ELSE s2
      s4 == IF repo.hasDiscussionsEnabled THEN s3 + 5 ELSE s3
      s5 == IF repo.isArchived THEN 0 ELSE s4
  IN  Max(0, Min(100, s5))

\* (variant: open issues earn nothing)
HealthScoreWithoutIssueBonus(repo, daysSinceCommit) ==
  LET s0 == 50
      s1 == IF daysSinceCommit # Null
            THEN IF daysSinceCommit <= 7 THEN s0 + 30
                 ELSE IF daysSinceCommit <= 30 THEN s0 + 20
                 ELSE IF daysSinceCommit <= 90 THEN s0 + 10
                 ELSE IF daysSinceCommit > 365 THEN s0 - 20
                 ELSE s0
            ELSE s0
      s2 == IF repo.releaseAge # Null /\ repo.releaseAge <= 90 THEN s1 + 10 ELSE s1
      s4 == IF repo.hasDiscussionsEnabled THEN s2 + 5 ELSE s2
      s5 == IF repo.isArchived THEN 0 ELSE s4
      s6 == IF repo.isDisabled THEN 0 ELSE s5
  IN  Max(0, Min(100, s6))

\* (variant: the thresholds of the commit age are exclusive)
HealthScoreStrictThresholds(repo, daysSinceCommit) ==
  LET s0 == 50
      s1 == IF daysSinceCommit # Null
            THEN IF daysSinceCommit < 7 THEN s0 + 30
                 ELSE IF daysSinceCommit < 30 THEN s0 + 20
                 ELSE IF daysSinceCommit < 90 THEN s0 + 10
                 ELSE IF daysSinceCommit >= 365 THEN s0 - 20
                 ELSE s0
            ELSE s0
      s2 == IF repo.releaseAge # Null /\ repo.releaseAge <= 90 THEN s1 + 10 ELSE s1
      s3 == IF repo.hasIssuesEnabled /\ repo.issues > 0 THEN s2 + 5 ELSE s2
      s4 == IF repo.hasDiscussionsEnabled THEN s3 + 5 ELSE s3
      s5 == IF repo.isArchived THEN 0 ELSE s4
      s6 == IF repo.isDisabled THEN 0 ELSE s5
  IN  Clamp(0, 100, s6)

calculateSimpleHealthScore(repo, daysSinceCommit) ==
  LET s0 == 50
      s1 == IF daysSinceCommit # Null
            THEN IF daysSinceCommit <= 7 THEN s0 + 30
                 ELSE IF daysSinceCommit <= 30 THEN s0 + 20
                 ELSE IF daysSinceCommit <= 90 THEN s0 + 10
                 ELSE IF daysSinceCommit > 365 THEN s0 - 20
                 ELSE s0
            ELSE s0
      s2 == IF repo.releaseAge # Null /\ repo.releaseAge <= 90 THEN s1 + 10 ELSE s1
      s3 == IF repo.hasIssuesEnabled /\ repo.issues > 0 THEN s2 + 5 ELSE s2
      s4 == IF repo.hasDiscussionsEnabled THEN s3 + 5 ELSE s3
      s5 == IF repo.isArchived THEN 0 ELSE s4
      s6 == IF repo.isDisabled THEN 0 ELSE s5
  IN  Clamp(0, 100, s6)

(***************************************************************************)
(* State.                                                                  *)
(***************************************************************************)
VARIABLES
  \* tables of init.sql
  repositories,             \* github_id -> row, for the stored repositories
  repository_languages,     \* repository_id -> set of language rows
  repository_stats,         \* repository_id -> stats row, where one exists
  \* the sync run (locals of fetchTopReposWithCursor)
  spc,                      \* position of the run
  totalLimit, cursor, fetchedTotal,
  batch,                    \* result of fetchBatchWithCursor being processed
  serr,                     \* message of the error caught at line 60
  triggered,                \* the triggers of the trigger surface fired so far
  upstream,                 \* generation of the upstream data
  repository_contributors,  \* repository_id -> set of contributor rows
  \* the contributors job (locals of updateContributors and its callees)
  wpc,                      \* position of the job
  rows,                     \* rows of the driving query still to process
  fb,                       \* locals of the fallback loop
  pending,                  \* arguments of the saveContributorsToDB call in progress
  response,                 \* status and message of the last answer of the contributors endpoint
  job,                      \* the trigger the enrichment job in progress serves
  \* the commit-activity job
  repository_commit_activity, \* repository_id -> set of week rows
  activityResponse,         \* the answer of the commit_activity endpoint being processed
  \* the trigger surface: per trigger, the status of the answer sent (0: none yet)
  res,
  \* history: per repository_id, the path of the last committed contributor save
  lastFetch,
  \* a call of a function of the score calculator or of the listing route on
  \* its own: its arguments and what it has returned so far
  arg, ret,
  \* a request to update-commit-activity served while another job of the worker
  \* service runs: the position, rows and answer at hand of its job, and the
  \* status the handler has answered
  overlap

syncTables == <<repositories, repository_languages>>
dbVars     == <<repositories, repository_languages, repository_stats, repository_contributors,
                repository_commit_activity>>
syncVars   == <<spc, totalLimit, cursor, fetchedTotal, batch, serr>>
workerVars == <<wpc, rows, fb, pending, response, job, activityResponse>>
callVars   == <<arg, ret>>
vars       == <<dbVars, syncVars, workerVars, lastFetch, upstream, triggered, res, callVars,
                overlap>>

\* the requests of the trigger surface: one of each kind, and a second one of
\* update-contributors and of update-commit-activity
Triggers ==
  {"quick", "comprehensive", "contributors", "activity", "runAll",
   "contributorsAgain", "activityAgain"}

NoBatch == [repos |-> << >>, nextCursor |-> 0, hasNext |-> FALSE, remaining |-> 0]
NoError == {}

(***************************************************************************)
(* Error messages, as the set of the substrings the code looks for that    *)
(* the message contains (error.message?.includes(..)).                     *)
(***************************************************************************)
Includes(msg, sub) == sub \in msg

MsgRateLimit   == {"rate limit"}
MsgBadGateway  == {"502", "Bad Gateway"}
MsgTimeout     == {"504"}
MsgPremature   == {"Premature close"}
MsgUnavailable == {"503"}
MsgServerError == {"500"}
MsgBadCreds    == {"401", "Bad credentials"}
MsgDatabase    == {"database"}
MsgDuplicate   == {"duplicate key value violates unique constraint"}

UpstreamErrors ==
  {MsgRateLimit, MsgBadGateway, MsgTimeout, MsgPremature, MsgUnavailable, MsgServerError,
   MsgBadCreds}

IsRateLimit(msg) == Includes(msg, "rate limit")

IsTransient(msg) ==
  \/ Includes(msg, "502")
  \/ Includes(msg, "504")
  \/ Includes(msg, "Bad Gateway")
  \/ Includes(msg, "Premature close")

(***************************************************************************)
(* Persistence Gateway: the statements of the two sync transactions.       *)
(***************************************************************************)
NextId(tbl) == Cardinality(DOMAIN tbl) + 1

\* INSERT INTO repositories .. ON CONFLICT (github_id) DO UPDATE SET ..
UpsertRepository(tbl, repo) ==
  IF repo.databaseId \in DOMAIN tbl
  THEN [tbl EXCEPT ![repo.databaseId] =
          [@ EXCEPT !.stars_count       = repo.stargazerCount,
                    !.forks_count       = repo.forkCount,
                    !.open_issues_count = repo.issues,
                    !.is_archived       = repo.isArchived,
                    !.is_disabled       = repo.isDisabled,
                    !.has_issues        = repo.hasIssuesEnabled,
                    !.has_discussions   = repo.hasDiscussionsEnabled]]
  ELSE [g \in DOMAIN tbl \cup {repo.databaseId} |->
          IF g \in DOMAIN tbl THEN tbl[g]
          ELSE [ id                |-> NextId(tbl),
                 github_id         |-> repo.databaseId,
                 full_name         |-> repo.nameWithOwner,
                 stars_count       |-> repo.stargazerCount,
                 forks_count       |-> repo.forkCount,
                 open_issues_count |-> repo.issues,
                 license_key       |-> repo.licenseKey,
                 is_archived       |-> repo.isArchived,
                 is_disabled       |-> repo.isDisabled,
                 has_issues        |-> repo.hasIssuesEnabled,
                 has_discussions   |-> repo.hasDiscussionsEnabled,
                 network_count     |-> repo.forkCount ]]

SumSizes(edges) ==
  LET RECURSIVE Sum(_)
      Sum(i) == IF i = 0 THEN 0 ELSE edges[i].size + Sum(i - 1)
  IN  Sum(Len(edges))

\* DELETE FROM repository_languages .. ; INSERT .. for each edge
ReplaceLanguages(tbl, repoId, repo) ==
  IF Len(repo.languages) > 0
  THEN LET totalSize == SumSizes(repo.languages)
       IN  [tbl EXCEPT ![repoId] =
              { [ language_name |-> e.name,
                  bytes_count   |-> e.size,
                  percentage    |-> IF totalSize > 0
                                    THEN (e.size * 100) \div totalSize ELSE 0 ]
                : e \in Range(repo.languages) }]
  ELSE tbl

\* the loop of batchSaveRepositories, from repository i of the batch on
RECURSIVE SaveRepositories(_, _, _, _)
SaveRepositories(rtbl, ltbl, repos, i) ==
  IF i > Len(repos) THEN [repositories |-> rtbl, repository_languages |-> ltbl]
  ELSE LET r2 == UpsertRepository(rtbl, repos[i])
           repoId == r2[repos[i].databaseId].id
       IN  SaveRepositories(r2, ReplaceLanguages(ltbl, repoId, repos[i]), repos, i + 1)

\* (variant: the conflicting row is replaced by a fresh one)
UpsertStatsReplacesRow(tbl, repoId, repo) ==
  LET daysSinceCommit == repo.daysSincePush
  IN  [k \in DOMAIN tbl \cup {repoId} |->
         IF k # repoId THEN tbl[k]
         ELSE [ repository_id           |-> repoId,
                commits_last_year       |-> repo.historyTotalCount,
                days_since_last_commit  |-> daysSinceCommit,
                days_since_last_release |-> repo.releaseAge,
                total_releases          |-> repo.releasesTotalCount,
                activity_score          |-> calculateSimpleActivityScore(repo, daysSinceCommit),
                health_score            |-> calculateSimpleHealthScore(repo, daysSinceCommit),
                contributors_data_type  |-> "all_time" ]]

\* INSERT INTO repository_stats .. ON CONFLICT (repository_id) DO UPDATE SET ..
UpsertStats(tbl, repoId, repo) ==
  LET daysSinceCommit == repo.daysSincePush
      activityScore == calculateSimpleActivityScore(repo, daysSinceCommit)
      healthScore == calculateSimpleHealthScore(repo, daysSinceCommit)
  IN  IF repoId \in DOMAIN tbl
      THEN [tbl EXCEPT ![repoId] =
              [@ EXCEPT !.commits_last_year       = repo.historyTotalCount,
                        !.days_since_last_commit  = daysSinceCommit,
                        !.days_since_last_release = repo.releaseAge,
                        !.total_releases          = repo.releasesTotalCount,
                        !.activity_score          = activityScore,
                        !.health_score            = healthScore]]
      ELSE [k \in DOMAIN tbl \cup {repoId} |->
              IF k \in DOMAIN tbl THEN tbl[k]
              ELSE [ repository_id           |-> repoId,
                     commits_last_year       |-> repo.historyTotalCount,
                     days_since_last_commit  |-> daysSinceCommit,
                     days_since_last_release |-> repo.releaseAge,
                     total_releases          |-> repo.releasesTotalCount,
                     activity_score          |-> activityScore,
                     health_score            |-> healthScore,
                     contributors_data_type  |-> "all_time" ]]

\* the loop of calculateAndSaveStats, from repository i of the batch on
RECURSIVE SaveStats(_, _, _, _)
SaveStats(stbl, rtbl, repos, i) ==
  IF i > Len(repos) THEN stbl
  ELSE IF repos[i].databaseId \notin DOMAIN rtbl
       THEN SaveStats(stbl, rtbl, repos, i + 1)
       ELSE SaveStats(UpsertStats(stbl, rtbl[repos[i].databaseId].id, repos[i]),
                      rtbl, repos, i + 1)

(***************************************************************************)
(* Upstream Client: one page of the search result.  The result lists the   *)
(* repositories 1..MaxRepos in order; the cursor is the position of the    *)
(* last node returned (0: no cursor).  A node may come without databaseId  *)
(* (nulls), and each node carries the snapshot current at the request.     *)
(***************************************************************************)
PagePositions(limit, cur) == (cur + 1)..Min(cur + limit, MaxRepos)

\* data.search.nodes.filter((repo) => repo?.databaseId)
RECURSIVE FilterNodes(_, _, _, _)
FilterNodes(lo, hi, nulls, ver) ==
  IF lo > hi THEN << >>
  ELSE IF lo \in nulls THEN FilterNodes(lo + 1, hi, nulls, ver)
       ELSE <<Snapshot(lo, ver)>> \o FilterNodes(lo + 1, hi, nulls, ver)

fetchBatchWithCursor(limit, cur, nulls, ver) ==
  LET hi == Min(cur + limit, MaxRepos)
  IN  [ repos      |-> FilterNodes(cur + 1, hi, nulls, ver),
        nextCursor |-> IF hi > cur THEN hi ELSE 0,
        hasNext    |-> hi < MaxRepos,
        remaining  |-> limit ]

(***************************************************************************)
(* Sync Orchestrator: fetchTopReposWithCursor.                             *)
(***************************************************************************)
\* while (fetchedTotal < totalLimit)
LoopHead(fetched, limit) == IF fetched < limit THEN "paging" ELSE "done"

\* (variant: the hasNextPage flag of the page is not looked at)
EndOfResultsIgnoresHasNext(b) == Len(b.repos) < b.remaining

\* if (!hasNext || repos.length < remaining) break; cursor = nextCursor; sleep
EndOfResults(b) == ~b.hasNext \/ Len(b.repos) < b.remaining

\* (variant: only the rate limit is retried)
CatchRetriesRateLimitOnly(msg) ==
  IF IsRateLimit(msg) THEN "backoff" ELSE "aborted"

\* (variant: every error is retried)
CatchRetriesEverything(msg) == "backoff"

\* the catch block: which way an error of the page attempt goes
Catch(msg) ==
  IF IsRateLimit(msg) THEN "backoff"
  ELSE IF IsTransient(msg) THEN "backoff"
  ELSE "aborted"

\* syncQuick / syncComprehensive: fetchTopReposWithCursor(300 / 1000)
LimitOf(trigger) == IF trigger = "quick" THEN QuickLimit ELSE ComprehensiveLimit

StartSync(trigger) ==
  /\ spc \in {"idle", "done", "aborted"}
  /\ trigger \notin triggered
  /\ triggered' = triggered \cup {trigger}
  /\ totalLimit' = LimitOf(trigger)
  /\ cursor' = 0
  /\ fetchedTotal' = 0
  /\ batch' = NoBatch
  /\ serr' = NoError
  /\ spc' = LoopHead(0, LimitOf(trigger))
  /\ res' = [res EXCEPT ![trigger] = 202]
  /\ UNCHANGED <<dbVars, workerVars, lastFetch, upstream, callVars, overlap>>

\* const remaining = Math.min(batchSize, totalLimit - fetchedTotal)
Remaining(limit, fetched) == Min(batchSize, limit - fetched)

\* await fetchBatchWithCursor(remaining, cursor) returns
FetchBatch ==
  /\ spc = "paging"
  /\ LET remaining == Remaining(totalLimit, fetchedTotal)
         pos == PagePositions(remaining, cursor)
     IN  \E nulls \in SUBSET pos :
           LET b == fetchBatchWithCursor(remaining, cursor, nulls, upstream)
           IN  IF Len(b.repos) > 0
               THEN /\ batch' = b
                    /\ spc' = "fetched"
                    /\ UNCHANGED cursor
               ELSE IF EndOfResults(b)
                    THEN /\ batch' = b
                         /\ spc' = "done"
                         /\ UNCHANGED cursor
                    ELSE /\ batch' = b
                         /\ spc' = "sleeping"
                         /\ cursor' = b.nextCursor
  /\ UNCHANGED <<upstream, callVars, overlap, workerVars, lastFetch, dbVars, totalLimit, fetchedTotal, serr, triggered, res>>

\* (variant: the page requested is counted though the request failed)
FetchBatchFailsCountsPage ==
  /\ spc = "paging"
  /\ \E msg \in UpstreamErrors :
       /\ serr' = msg
       /\ spc' = Catch(msg)
  /\ fetchedTotal' = fetchedTotal + Remaining(totalLimit, fetchedTotal)
  /\ UNCHANGED <<upstream, callVars, overlap, workerVars, lastFetch, dbVars, totalLimit, cursor, batch, triggered, res>>

\* await fetchBatchWithCursor(..) throws
FetchBatchFails ==
  /\ spc = "paging"
  /\ \E msg \in UpstreamErrors :
       /\ serr' = msg
       /\ spc' = Catch(msg)
  /\ UNCHANGED <<upstream, callVars, overlap, workerVars, lastFetch, dbVars, totalLimit, cursor, fetchedTotal, batch, triggered, res>>

\* await batchSaveRepositories(repos) commits
\* full_name VARCHAR(500) UNIQUE: an INSERT of the page, for an upstream id not
\* stored yet, carries a name that a stored row has
NameTaken(tbl, repos) ==
  \E i \in DOMAIN repos :
    /\ repos[i].databaseId \notin DOMAIN tbl
    /\ \E g \in DOMAIN tbl : tbl[g].full_name = repos[i].nameWithOwner

BatchSave ==
  /\ spc = "fetched"
  /\ ~NameTaken(repositories, batch.repos)
  /\ LET saved == SaveRepositories(repositories, repository_languages, batch.repos, 1)
     IN  /\ repositories' = saved.repositories
         /\ repository_languages' = saved.repository_languages
  /\ spc' = "saved"
  /\ UNCHANGED <<upstream, callVars, overlap, workerVars, lastFetch, repository_stats, repository_contributors,
                 repository_commit_activity, totalLimit, cursor, fetchedTotal, batch, serr, triggered, res>>

\* await batchSaveRepositories(repos) rolls back and throws
\* (variant: the page that violates the constraint is passed over)
BatchSaveNameTakenSkipsPage ==
  /\ spc = "fetched"
  /\ NameTaken(repositories, batch.repos)
  /\ spc' = "sleeping"
  /\ cursor' = batch.nextCursor
  /\ batch' = NoBatch
  /\ UNCHANGED <<upstream, callVars, overlap, workerVars, lastFetch, dbVars, totalLimit, fetchedTotal, serr, triggered, res>>

\* the INSERT violates the constraint: ROLLBACK, throw (lines 283-286), caught
\* at line 60
BatchSaveNameTaken ==
  /\ spc = "fetched"
  /\ NameTaken(repositories, batch.repos)
  /\ serr' = MsgDuplicate
  /\ spc' = Catch(MsgDuplicate)
  /\ batch' = NoBatch
  /\ UNCHANGED <<upstream, callVars, overlap, workerVars, lastFetch, dbVars, totalLimit, cursor, fetchedTotal, triggered, res>>

BatchSaveFails ==
  /\ spc = "fetched"
  /\ serr' = MsgDatabase
  /\ spc' = Catch(MsgDatabase)
  /\ batch' = NoBatch
  /\ UNCHANGED <<upstream, callVars, overlap, workerVars, lastFetch, dbVars, totalLimit, cursor, fetchedTotal, triggered, res>>

\* await calculateAndSaveStats(repos) commits; then lines 48-58 up to the sleep
CalculateAndSaveStats ==
  /\ spc = "saved"
  /\ repository_stats' = SaveStats(repository_stats, repositories, batch.repos, 1)
  /\ fetchedTotal' = fetchedTotal + Len(batch.repos)
  /\ IF EndOfResults(batch)
     THEN /\ spc' = "done"
          /\ UNCHANGED cursor
     ELSE /\ spc' = "sleeping"
          /\ cursor' = batch.nextCursor
  /\ batch' = NoBatch
  /\ UNCHANGED <<upstream, callVars, overlap, workerVars, lastFetch, repositories, repository_languages,
                 repository_contributors, repository_commit_activity, totalLimit, serr,
                 triggered, res>>

\* (variant: the failure of the stats transaction is swallowed)
StatsFailureSwallowed ==
  /\ spc = "saved"
  /\ fetchedTotal' = fetchedTotal + Len(batch.repos)
  /\ IF EndOfResults(batch)
     THEN /\ spc' = "done"
          /\ UNCHANGED cursor
     ELSE /\ spc' = "sleeping"
          /\ cursor' = batch.nextCursor
  /\ batch' = NoBatch
  /\ UNCHANGED <<upstream, callVars, overlap, workerVars, lastFetch, dbVars, totalLimit, serr, triggered, res>>

\* await calculateAndSaveStats(repos) rolls back and throws
CalculateAndSaveStatsFails ==
  /\ spc = "saved"
  /\ serr' = MsgDatabase
  /\ spc' = Catch(MsgDatabase)
  /\ batch' = NoBatch
  /\ UNCHANGED <<upstream, callVars, overlap, workerVars, lastFetch, dbVars, totalLimit, cursor, fetchedTotal, triggered, res>>

\* await sleep(GITHUB_REQUEST_DELAY_MS) returns; back to the loop head
PacingDone ==
  /\ spc = "sleeping"
  /\ spc' = LoopHead(fetchedTotal, totalLimit)
  /\ UNCHANGED <<upstream, callVars, overlap, workerVars, lastFetch, dbVars, totalLimit, cursor, fetchedTotal, batch, serr, triggered, res>>

\* await sleep(60000) / sleep(10000) returns; continue
BackoffDone ==
  /\ spc = "backoff"
  /\ spc' = LoopHead(fetchedTotal, totalLimit)
  /\ serr' = NoError
  /\ UNCHANGED <<upstream, callVars, overlap, workerVars, lastFetch, dbVars, totalLimit, cursor, fetchedTotal, batch, triggered, res>>

\* the upstream data changes
UpstreamChanges ==
  /\ upstream = "s1"
  /\ upstream' = "s2"
  /\ UNCHANGED <<dbVars, syncVars, workerVars, lastFetch, triggered, res, callVars, overlap>>

\* the repositories are renamed upstream
UpstreamRenames ==
  /\ upstream # "s3"
  /\ upstream' = "s3"
  /\ UNCHANGED <<dbVars, syncVars, workerVars, lastFetch, triggered, res, callVars, overlap>>

SyncNext ==
  \/ \E trigger \in {"quick", "comprehensive"} : StartSync(trigger)
  \/ FetchBatch
  \/ FetchBatchFails
  \/ BatchSave
  \/ BatchSaveFails
  \/ CalculateAndSaveStats
  \/ CalculateAndSaveStatsFails
  \/ PacingDone
  \/ BackoffDone

(***************************************************************************)
(* Upstream Client: contributors (REST) and commit history (GraphQL).      *)
(***************************************************************************)
NoType == ""

\* bodies of a successful GET /repos/{fullName}/contributors?per_page=30
RestLists ==
  { l \in { << >>,
            << [id |-> 1, login |-> "alice", contributions |-> 9, type |-> "User"],
               [id |-> 3, login |-> "ci-bot", contributions |-> 4, type |-> "Bot"] >> } :
      Len(l) <= topContributors }

\* responses of the contributors endpoint: status, and for a failure the
\* substrings of interest of the body's message
RestResponses ==
  {[ok |-> TRUE, status |-> 200, message |-> {}, body |-> l] : l \in RestLists}
  \cup {[ok |-> FALSE, status |-> 403, message |-> {"list is too large"}, body |-> << >>],
        [ok |-> FALSE, status |-> 403, message |-> {"rate limit"}, body |-> << >>],
        [ok |-> FALSE, status |-> 401, message |-> {"Bad credentials"}, body |-> << >>]}

\* author.user of a commit node: 0 is a commit without a user identity
User(u) ==
  [databaseId |-> u, login |-> IF u = 1 THEN "alice" ELSE IF u = 2 THEN "bob" ELSE "carol"]

\* commit histories of a default branch, newest first, by author
Histories ==
  { <<1, 2, 1>>,
    <<0>>,
    <<2, 4, 1, 2, 0, 1, 1, 2, 1, 1, 2>> }

\* history(first: 100, after: $cursor): nodes and pageInfo
HistoryPage(h, cur) ==
  LET end == Min(cur + historyPageSize, Len(h))
  IN  [ nodes       |-> SubSeq(h, cur + 1, end),
        endCursor   |-> end,
        hasNextPage |-> end < Len(h) ]

\* messages of a failed GraphQL request of the fallback
MsgNotFound == {"404"}
MsgMissing  == {"MISSING"}
GraphQLErrors == {MsgNotFound, MsgMissing, MsgBadGateway, MsgBadCreds}

(***************************************************************************)
(* Enrichment Workers: contributors refresh.                               *)
(***************************************************************************)
\* rows of SELECT id, full_name FROM repositories LIMIT 300, in id order
RECURSIVE RowsFrom(_, _)
RowsFrom(tbl, k) ==
  IF k > Cardinality(DOMAIN tbl) \/ k > selectLimit THEN << >>
  ELSE LET g == CHOOSE x \in DOMAIN tbl : tbl[x].id = k
       IN  <<[id |-> tbl[g].id, full_name |-> tbl[g].full_name]>> \o RowsFrom(tbl, k + 1)

SelectRepositories(tbl) == RowsFrom(tbl, 1)

\* contributorsMap.get(login): the position of the entry, 0 when there is none
MapIndex(map, login) ==
  IF \E i \in DOMAIN map : map[i].login = login
  THEN CHOOSE i \in DOMAIN map : map[i].login = login
  ELSE 0

\* (variant: an author already in the map is not counted again)
RECURSIVE TallyNodesCountsOnce(_, _, _)
TallyNodesCountsOnce(map, nodes, k) ==
  IF k > Len(nodes) THEN map
  ELSE IF nodes[k] = 0 THEN TallyNodesCountsOnce(map, nodes, k + 1)
       ELSE LET user == User(nodes[k])
                at == MapIndex(map, user.login)
            IN  IF at # 0
                THEN TallyNodesCountsOnce(map, nodes, k + 1)
                ELSE TallyNodesCountsOnce(Append(map, [ id            |-> user.databaseId,
                                                        login         |-> user.login,
                                                        contributions |-> 1,
                                                        type          |-> NoType ]),
                                          nodes, k + 1)

\* lines 486-502: the tally of one page's nodes, from node k on
RECURSIVE TallyNodes(_, _, _)
TallyNodes(map, nodes, k) ==
  IF k > Len(nodes) THEN map
  ELSE IF nodes[k] = 0 THEN TallyNodes(map, nodes, k + 1)
       ELSE LET user == User(nodes[k])
                at == MapIndex(map, user.login)
            IN  IF at # 0
                THEN TallyNodes([map EXCEPT ![at].contributions = @ + 1], nodes, k + 1)
                ELSE TallyNodes(Append(map, [ id            |-> user.databaseId,
                                              login         |-> user.login,
                                              contributions |-> 1,
                                              type          |-> NoType ]),
                                nodes, k + 1)

\* .sort((a, b) => b.contributions - a.contributions): stable, descending
InsertByContributions(sorted, e) ==
  LET before == {i \in DOMAIN sorted : sorted[i].contributions >= e.contributions}
      n == Cardinality(before)
  IN  SubSeq(sorted, 1, n) \o <<e>> \o SubSeq(sorted, n + 1, Len(sorted))

RECURSIVE SortFrom(_, _, _)
SortFrom(sorted, list, k) ==
  IF k > Len(list) THEN sorted
  ELSE SortFrom(InsertByContributions(sorted, list[k]), list, k + 1)

\* Array.from(contributorsMap.values()).sort(..).slice(0, 30)
SortedContributors(map) ==
  LET sorted == SortFrom(<< >>, map, 1)
  IN  SubSeq(sorted, 1, Min(topContributors, Len(sorted)))

\* INSERT INTO repository_contributors .. ON CONFLICT (repository_id, github_id)
\* DO UPDATE SET contributions = EXCLUDED.contributions
InsertContributor(set, c, fallbackType) ==
  IF \E r \in set : r.github_id = c.id
  THEN {IF r.github_id = c.id THEN [r EXCEPT !.contributions = c.contributions] ELSE r
          : r \in set}
  ELSE set \cup {[ github_id     |-> c.id,
                   login         |-> c.login,
                   contributions |-> c.contributions,
                   type          |-> IF c.type # NoType THEN c.type ELSE fallbackType ]}

\* lines 546-566: the insert loop, from contributor k on
RECURSIVE InsertContributors(_, _, _, _)
InsertContributors(set, contributors, fallbackType, k) ==
  IF k > Len(contributors) THEN set
  ELSE IF contributors[k].login = ""
       THEN InsertContributors(set, contributors, fallbackType, k + 1)
       ELSE InsertContributors(InsertContributor(set, contributors[k], fallbackType),
                               contributors, fallbackType, k + 1)

\* (variant: the rows stored before are not deleted)
ReplaceContributorsKeepsOld(tbl, repoId, contributors, fallbackType) ==
  [tbl EXCEPT ![repoId] = InsertContributors(@, contributors, fallbackType, 1)]

\* DELETE FROM repository_contributors WHERE repository_id = $1, then the inserts
ReplaceContributors(tbl, repoId, contributors, fallbackType) ==
  [tbl EXCEPT ![repoId] = InsertContributors({}, contributors, fallbackType, 1)]

\* UPDATE repository_stats SET contributors_data_type = $1 WHERE repository_id = $2
UpdateDataType(tbl, repoId, dataType) ==
  IF repoId \in DOMAIN tbl
  THEN [tbl EXCEPT ![repoId].contributors_data_type = dataType]
  ELSE tbl

NoFallback ==
  [ started |-> 0, i |-> 0, cursor |-> 0, hasNextPage |-> TRUE,
    contributorsMap |-> << >>, history |-> << >>, requests |-> 0, error |-> NoError ]
NoPending ==
  [ repoId |-> 0, contributors |-> << >>, fallbackType |-> NoType, dataType |-> "" ]
NoResponse == [status |-> 0, message |-> {}]
NoActivity == [status |-> 0, isArray |-> FALSE, weeks |-> << >>]

\* a job of the worker service may start: none is in progress
WorkerFree == wpc \in {"idle", "done", "failed"}

\* the job returns to its caller: the handlers of update-contributors and
\* update-commit-activity awaited it and answer now (lines 31-32, 40-41)
JobReturns(status) ==
  IF job \in {"contributors", "contributorsAgain", "activity", "activityAgain"}
  THEN res' = [res EXCEPT ![job] = status]
  ELSE UNCHANGED res

\* the for loop of updateContributors moves to the next row; after the last
\* row updateContributors returns, and runAllJobs goes on to updateCommitActivity
NextRepository ==
  /\ rows' = Tail(rows)
  /\ fb' = NoFallback
  /\ pending' = NoPending
  /\ IF Len(rows) > 1
     THEN wpc' = "primary" /\ UNCHANGED res
     ELSE IF job = "runAll"
          THEN wpc' = "activitySelect" /\ UNCHANGED res
          ELSE wpc' = "done" /\ JobReturns(202)

\* updateContributors(): the driving query answers
SelectForContributors(trigger) ==
  /\ WorkerFree
  /\ trigger \notin triggered
  /\ triggered' = triggered \cup {trigger}
  /\ job' = trigger
  /\ rows' = SelectRepositories(repositories)
  /\ fb' = NoFallback
  /\ pending' = NoPending
  /\ response' = NoResponse
  /\ activityResponse' = NoActivity
  /\ UNCHANGED <<dbVars, syncVars, lastFetch, upstream, callVars, overlap>>

\* POST /api/workers/update-contributors: await workerService.updateContributors()
StartJobFor(request) ==
  /\ SelectForContributors(request)
  /\ IF rows' = << >>
     THEN wpc' = "done" /\ res' = [res EXCEPT ![request] = 202]
     ELSE wpc' = "primary" /\ UNCHANGED res

StartJob == StartJobFor("contributors")

\* a second request to the same handler
StartJobAgain ==
  /\ "contributors" \in triggered
  /\ StartJobFor("contributorsAgain")

\* the same, when pool.connect() or the driving query throws: the handler
\* answers 500 (lines 33-34)
StartJobFails ==
  /\ WorkerFree
  /\ "contributors" \notin triggered
  /\ triggered' = triggered \cup {"contributors"}
  /\ job' = "contributors"
  /\ wpc' = "failed"
  /\ res' = [res EXCEPT !["contributors"] = 500]
  /\ rows' = << >>
  /\ fb' = NoFallback
  /\ pending' = NoPending
  /\ response' = NoResponse
  /\ activityResponse' = NoActivity
  /\ UNCHANGED <<dbVars, syncVars, lastFetch, upstream, callVars, overlap>>

\* (variant: the status alone starts the fallback)
PrimaryResponseFallsBackOn403 ==
  /\ wpc = "primary"
  /\ \E r \in RestResponses :
       /\ response' = [status |-> r.status, message |-> r.message]
       /\ IF r.ok
          THEN /\ pending' = [ repoId       |-> Head(rows).id,
                               contributors |-> r.body,
                               fallbackType |-> NoType,
                               dataType     |-> "all_time" ]
               /\ wpc' = "save"
               /\ UNCHANGED <<rows, fb, res>>
          ELSE IF r.status = 403
               THEN /\ \E h \in Histories :
                         fb' = [NoFallback EXCEPT !.started = 1, !.history = h]
                    /\ wpc' = "fallback"
                    /\ UNCHANGED <<rows, pending, res>>
               ELSE NextRepository
  /\ UNCHANGED <<dbVars, syncVars, lastFetch, upstream, callVars, overlap, triggered, job, activityResponse>>

\* (variant: a failed request is made again for the same repository)
PrimaryResponseRetries ==
  /\ wpc = "primary"
  /\ \E r \in RestResponses :
       /\ response' = [status |-> r.status, message |-> r.message]
       /\ IF r.ok
          THEN /\ pending' = [ repoId       |-> Head(rows).id,
                               contributors |-> r.body,
                               fallbackType |-> NoType,
                               dataType     |-> "all_time" ]
               /\ wpc' = "save"
               /\ UNCHANGED <<rows, fb, res>>
          ELSE IF r.status = 403 /\ Includes(r.message, "list is too large")
               THEN /\ \E h \in Histories :
                         fb' = [NoFallback EXCEPT !.started = 1, !.history = h]
                    /\ wpc' = "fallback"
                    /\ UNCHANGED <<rows, pending, res>>
               ELSE /\ wpc' = "primary"
                    /\ UNCHANGED <<rows, fb, pending, res>>
  /\ UNCHANGED <<dbVars, syncVars, lastFetch, upstream, callVars, overlap, triggered, job, activityResponse>>

\* fetchAndSaveContributors: the REST request answers
PrimaryResponse ==
  /\ wpc = "primary"
  /\ \E r \in RestResponses :
       /\ response' = [status |-> r.status, message |-> r.message]
       /\ IF r.ok
          THEN /\ pending' = [ repoId       |-> Head(rows).id,
                               contributors |-> r.body,
                               fallbackType |-> NoType,
                               dataType     |-> "all_time" ]
               /\ wpc' = "save"
               /\ UNCHANGED <<rows, fb, res>>
          ELSE IF r.status = 403 /\ Includes(r.message, "list is too large")
               THEN /\ \E h \in Histories :
                         fb' = [NoFallback EXCEPT !.started = 1, !.history = h]
                    /\ wpc' = "fallback"
                    /\ UNCHANGED <<rows, pending, res>>
               ELSE NextRepository
  /\ UNCHANGED <<dbVars, syncVars, lastFetch, upstream, callVars, overlap, triggered, job, activityResponse>>

\* (variant: the loop has no catch, the error ends the job)
PrimaryFetchThrowsEndsJob ==
  /\ wpc = "primary"
  /\ response' = NoResponse
  /\ wpc' = "failed"
  /\ UNCHANGED <<dbVars, syncVars, lastFetch, upstream, callVars, overlap, triggered, job, activityResponse,
                 rows, fb, pending, res>>

\* fetchAndSaveContributors: fetch() itself throws (line 406)
PrimaryFetchThrows ==
  /\ wpc = "primary"
  /\ response' = NoResponse
  /\ NextRepository
  /\ UNCHANGED <<dbVars, syncVars, lastFetch, upstream, callVars, overlap, triggered, job, activityResponse>>

\* the locals of the loop are dead once it is left; the counts are kept
LoopLeft(f) ==
  [NoFallback EXCEPT !.started = f.started, !.i = f.i, !.requests = f.requests,
                     !.hasNextPage = f.hasNextPage, !.error = f.error]

\* lines 515-525, reached when the loop of the fallback ends
AfterFallbackLoop(f) ==
  IF Len(f.contributorsMap) = 0
  THEN /\ wpc' = "sleep"
       /\ UNCHANGED pending
  ELSE /\ pending' = [ repoId       |-> Head(rows).id,
                       contributors |-> SortedContributors(f.contributorsMap),
                       fallbackType |-> "User",
                       dataType     |-> "recent" ]
       /\ wpc' = "save"

\* one iteration of the fallback loop: the GraphQL request answers with a history
FallbackPage ==
  /\ wpc = "fallback"
  /\ LET page == HistoryPage(fb.history, fb.cursor)
         f == [fb EXCEPT !.contributorsMap = TallyNodes(@, page.nodes, 1),
                         !.cursor = page.endCursor,
                         !.hasNextPage = page.hasNextPage,
                         !.i = @ + 1,
                         !.requests = @ + 1]
     IN  IF f.i < maxPages /\ f.hasNextPage
         THEN /\ fb' = f
              /\ wpc' = "fallback"
              /\ UNCHANGED pending
         ELSE /\ fb' = LoopLeft(f)
              /\ AfterFallbackLoop(f)
  /\ UNCHANGED <<dbVars, syncVars, rows, lastFetch, upstream, callVars, overlap, triggered, res, response, job,
                 activityResponse>>

\* the request answers without a history (line 484: break)
FallbackNoHistory ==
  /\ wpc = "fallback"
  /\ fb' = LoopLeft([fb EXCEPT !.requests = @ + 1])
  /\ AfterFallbackLoop(fb)
  /\ UNCHANGED <<dbVars, syncVars, rows, lastFetch, upstream, callVars, overlap, triggered, res, response, job,
                 activityResponse>>

\* (variant: a 404 / MISSING answer is rethrown like any other error)
FallbackFailsRethrowsNotFound ==
  /\ wpc = "fallback"
  /\ \E msg \in GraphQLErrors :
       /\ fb' = LoopLeft([fb EXCEPT !.requests = @ + 1, !.error = msg])
       /\ wpc' = "sleep"
  /\ UNCHANGED <<dbVars, syncVars, rows, pending, lastFetch, upstream, callVars, overlap, triggered, res,
                 response, job, activityResponse>>

\* (variant: a failed request ends the loop like a missing history does, and
\* what was tallied so far is stored)
FallbackFailsKeepsTallies ==
  /\ wpc = "fallback"
  /\ \E msg \in GraphQLErrors :
       fb' = LoopLeft([fb EXCEPT !.requests = @ + 1,
                                 !.error = IF Includes(msg, "404") \/ Includes(msg, "MISSING")
                                           THEN NoError ELSE msg])
  /\ AfterFallbackLoop(fb)
  /\ UNCHANGED <<dbVars, syncVars, rows, lastFetch, upstream, callVars, overlap, triggered, res, response, job,
                 activityResponse>>

\* the request throws: 404 / MISSING returns (509), anything else is rethrown
\* and caught at line 430 (the error kept is the one caught there); both ways
\* fetchAndSaveContributors returns normally
FallbackFails ==
  /\ wpc = "fallback"
  /\ \E msg \in GraphQLErrors :
       /\ fb' = LoopLeft([fb EXCEPT !.requests = @ + 1,
                                    !.error = IF Includes(msg, "404") \/ Includes(msg, "MISSING")
                                              THEN NoError ELSE msg])
       /\ wpc' = "sleep"
  /\ UNCHANGED <<dbVars, syncVars, rows, pending, lastFetch, upstream, callVars, overlap, triggered, res,
                 response, job, activityResponse>>

\* (variant: the discriminator is written by replacing the stats row)
SaveContributorsReplacesStatsRow ==
  /\ wpc = "save"
  /\ repository_contributors' =
       ReplaceContributors(repository_contributors, pending.repoId,
                           pending.contributors, pending.fallbackType)
  /\ repository_stats' =
       IF pending.repoId \in DOMAIN repository_stats
       THEN [repository_stats EXCEPT ![pending.repoId] =
               [ repository_id           |-> pending.repoId,
                 commits_last_year       |-> 0,
                 days_since_last_commit  |-> Null,
                 days_since_last_release |-> Null,
                 total_releases          |-> 0,
                 activity_score          |-> 0,
                 health_score            |-> 0,
                 contributors_data_type  |-> pending.dataType ]]
       ELSE repository_stats
  /\ lastFetch' = [lastFetch EXCEPT ![pending.repoId] = pending.dataType]
  /\ wpc' = "sleep"
  /\ UNCHANGED <<repositories, repository_languages, repository_commit_activity, syncVars,
                 rows, fb, pending, upstream, callVars, overlap, triggered, res, response, job,
                 activityResponse>>

\* (variant: the transaction commits without the UPDATE of the discriminator)
SaveContributorsWithoutDataType ==
  /\ wpc = "save"
  /\ repository_contributors' =
       ReplaceContributors(repository_contributors, pending.repoId,
                           pending.contributors, pending.fallbackType)
  /\ lastFetch' = [lastFetch EXCEPT ![pending.repoId] = pending.dataType]
  /\ wpc' = "sleep"
  /\ UNCHANGED <<repositories, repository_languages, repository_stats,
                 repository_commit_activity, syncVars,
                 rows, fb, pending, upstream, callVars, overlap, triggered, res, response, job,
                 activityResponse>>

\* saveContributorsToDB commits
SaveContributors ==
  /\ wpc = "save"
  /\ repository_contributors' =
       ReplaceContributors(repository_contributors, pending.repoId,
                           pending.contributors, pending.fallbackType)
  /\ repository_stats' = UpdateDataType(repository_stats, pending.repoId, pending.dataType)
  /\ lastFetch' = [lastFetch EXCEPT ![pending.repoId] = pending.dataType]
  /\ wpc' = "sleep"
  /\ UNCHANGED <<repositories, repository_languages, repository_commit_activity, syncVars,
                 rows, fb, pending, upstream, callVars, overlap, triggered, res, response, job,
                 activityResponse>>

\* (variant: the failed transaction is not rolled back: the delete and the
\* inserts made so far stay)
SaveContributorsFailsKeepsWrites ==
  /\ wpc = "save"
  /\ repository_contributors' =
       ReplaceContributors(repository_contributors, pending.repoId,
                           pending.contributors, pending.fallbackType)
  /\ IF pending.dataType = "recent"
     THEN /\ wpc' = "sleep"
          /\ fb' = [fb EXCEPT !.error = MsgDatabase]
          /\ UNCHANGED <<rows, pending, res>>
     ELSE NextRepository
  /\ UNCHANGED <<repositories, repository_languages, repository_stats,
                 repository_commit_activity, syncVars, lastFetch, upstream, callVars, overlap, triggered,
                 response, job, activityResponse>>

\* saveContributorsToDB rolls back and throws: caught at line 430 on the
\* fallback path, at line 346 (no pacing sleep) on the primary path
SaveContributorsFails ==
  /\ wpc = "save"
  /\ IF pending.dataType = "recent"
     THEN /\ wpc' = "sleep"
          /\ fb' = [fb EXCEPT !.error = MsgDatabase]
          /\ UNCHANGED <<rows, pending, res>>
     ELSE NextRepository
  /\ UNCHANGED <<dbVars, syncVars, lastFetch, upstream, callVars, overlap, triggered, response, job,
                 activityResponse>>

\* await sleep(1000) returns
WorkerPacingDone ==
  /\ wpc = "sleep"
  /\ NextRepository
  /\ UNCHANGED <<dbVars, syncVars, lastFetch, upstream, callVars, overlap, triggered, response, job,
                 activityResponse>>

WorkerNext ==
  \/ StartJob
  \/ StartJobFails
  \/ PrimaryResponse
  \/ PrimaryFetchThrows
  \/ FallbackPage
  \/ FallbackNoHistory
  \/ FallbackFails
  \/ SaveContributors
  \/ SaveContributorsFails
  \/ WorkerPacingDone

(***************************************************************************)
(* Enrichment Workers: commit-activity refresh, and the run-all job.        *)
(***************************************************************************)
\* bodies of GET /repos/{fullName}/stats/commit_activity: weeks with totals
WeekLists ==
  { << >>,
    << [week |-> 1, total |-> 5], [week |-> 2, total |-> 0] >>,
    << [week |-> 2, total |-> 7], [week |-> 3, total |-> 1] >> }

\* answers of the endpoint: a week list, 202 with an object for a body while
\* the statistics are being computed, or a failure status
ActivityResponses ==
  {[status |-> 200, isArray |-> TRUE, weeks |-> l] : l \in WeekLists}
  \cup {[status |-> 202, isArray |-> FALSE, weeks |-> << >>],
        [status |-> 401, isArray |-> FALSE, weeks |-> << >>],
        [status |-> 404, isArray |-> FALSE, weeks |-> << >>]}

\* response.ok
Ok(status) == status \in 200..299

\* INSERT INTO repository_commit_activity .. ON CONFLICT (repository_id,
\* week_timestamp) DO UPDATE SET total_commits = EXCLUDED.total_commits
InsertWeek(set, w) ==
  IF \E r \in set : r.week_timestamp = w.week
  THEN {IF r.week_timestamp = w.week THEN [r EXCEPT !.total_commits = w.total] ELSE r
          : r \in set}
  ELSE set \cup {[week_timestamp |-> w.week, total_commits |-> w.total]}

\* lines 625-637: the insert loop, from week k on
RECURSIVE InsertWeeks(_, _, _)
InsertWeeks(set, weeks, k) ==
  IF k > Len(weeks) THEN set
  ELSE InsertWeeks(InsertWeek(set, weeks[k]), weeks, k + 1)

\* DELETE FROM repository_commit_activity WHERE repository_id = $1, then the inserts
ReplaceActivity(tbl, repoId, weeks) ==
  [tbl EXCEPT ![repoId] = InsertWeeks({}, weeks, 1)]

\* the for loop of updateCommitActivity moves to the next row; after the last
\* row the job returns
NextActivityRepository ==
  /\ rows' = Tail(rows)
  /\ activityResponse' = NoActivity
  /\ IF Len(rows) > 1
     THEN wpc' = "activity" /\ UNCHANGED res
     ELSE wpc' = "done" /\ JobReturns(202)

\* POST /api/workers/update-commit-activity: await workerService.updateCommitActivity()
StartActivityJobFor(request) ==
  /\ WorkerFree
  /\ request \notin triggered
  /\ triggered' = triggered \cup {request}
  /\ job' = request
  /\ rows' = SelectRepositories(repositories)
  /\ IF rows' = << >>
     THEN wpc' = "done" /\ res' = [res EXCEPT ![request] = 202]
     ELSE wpc' = "activity" /\ UNCHANGED res
  /\ fb' = NoFallback
  /\ pending' = NoPending
  /\ response' = NoResponse
  /\ activityResponse' = NoActivity
  /\ UNCHANGED <<dbVars, syncVars, lastFetch, upstream, callVars, overlap>>

StartActivityJob == StartActivityJobFor("activity")

\* a second request to the same handler
StartActivityJobAgain ==
  /\ "activity" \in triggered
  /\ StartActivityJobFor("activityAgain")

\* the same, when pool.connect() or the driving query throws: the handler
\* answers 500 (lines 42-43)
StartActivityJobFails ==
  /\ WorkerFree
  /\ "activity" \notin triggered
  /\ triggered' = triggered \cup {"activity"}
  /\ job' = "activity"
  /\ wpc' = "failed"
  /\ res' = [res EXCEPT !["activity"] = 500]
  /\ rows' = << >>
  /\ fb' = NoFallback
  /\ pending' = NoPending
  /\ response' = NoResponse
  /\ activityResponse' = NoActivity
  /\ UNCHANGED <<dbVars, syncVars, lastFetch, upstream, callVars, overlap>>

\* POST /api/workers/run-all: workerService.runAllJobs() is called and not
\* awaited; the handler answers 202 (lines 49-50) while updateContributors runs
StartRunAll ==
  /\ SelectForContributors("runAll")
  /\ res' = [res EXCEPT !["runAll"] = 202]
  /\ wpc' = IF rows' = << >> THEN "activitySelect" ELSE "primary"

\* the same, when the driving query of updateContributors throws: the promise
\* of runAllJobs rejects with nobody awaiting it
StartRunAllFails ==
  /\ WorkerFree
  /\ "runAll" \notin triggered
  /\ triggered' = triggered \cup {"runAll"}
  /\ job' = "runAll"
  /\ wpc' = "failed"
  /\ res' = [res EXCEPT !["runAll"] = 202]
  /\ rows' = << >>
  /\ fb' = NoFallback
  /\ pending' = NoPending
  /\ response' = NoResponse
  /\ activityResponse' = NoActivity
  /\ UNCHANGED <<dbVars, syncVars, lastFetch, upstream, callVars, overlap>>

\* runAllJobs: await this.updateCommitActivity(), its driving query answers
ActivitySelect ==
  /\ wpc = "activitySelect"
  /\ rows' = SelectRepositories(repositories)
  /\ wpc' = IF rows' = << >> THEN "done" ELSE "activity"
  /\ response' = NoResponse
  /\ UNCHANGED <<dbVars, syncVars, lastFetch, upstream, callVars, overlap, triggered, res, fb, pending,
                 job, activityResponse>>

\* the driving query throws
ActivitySelectFails ==
  /\ wpc = "activitySelect"
  /\ wpc' = "failed"
  /\ UNCHANGED <<dbVars, syncVars, lastFetch, upstream, callVars, overlap, triggered, res, rows, fb, pending,
                 response, job, activityResponse>>

\* (variant: an empty week list is saved like any other)
ActivityResponseSavesEmpty ==
  /\ wpc = "activity"
  /\ \E r \in ActivityResponses :
       IF ~Ok(r.status)
       THEN IF r.status = 202
            THEN /\ activityResponse' = r
                 /\ wpc' = "activitySleep"
                 /\ UNCHANGED <<rows, res>>
            ELSE NextActivityRepository
       ELSE /\ activityResponse' = r
            /\ wpc' = IF ~r.isArray THEN "activitySleep" ELSE "activitySave"
            /\ UNCHANGED <<rows, res>>
  /\ UNCHANGED <<dbVars, syncVars, lastFetch, upstream, callVars, overlap, triggered, fb, pending, response, job>>

\* fetchAndSaveCommitActivity: the request answers (lines 592-615)
ActivityResponse ==
  /\ wpc = "activity"
  /\ \E r \in ActivityResponses :
       IF ~Ok(r.status)
       THEN IF r.status = 202
            THEN /\ activityResponse' = r
                 /\ wpc' = "activitySleep"
                 /\ UNCHANGED <<rows, res>>
            ELSE NextActivityRepository
       ELSE /\ activityResponse' = r
            /\ wpc' = IF ~r.isArray \/ Len(r.weeks) = 0 THEN "activitySleep"
                                                         ELSE "activitySave"
            /\ UNCHANGED <<rows, res>>
  /\ UNCHANGED <<dbVars, syncVars, lastFetch, upstream, callVars, overlap, triggered, fb, pending, response, job>>

\* fetch() itself throws: caught at line 376
ActivityFetchThrows ==
  /\ wpc = "activity"
  /\ NextActivityRepository
  /\ UNCHANGED <<dbVars, syncVars, lastFetch, upstream, callVars, overlap, triggered, fb, pending, response, job>>

\* the transaction of lines 617-639 commits
ActivitySave ==
  /\ wpc = "activitySave"
  /\ repository_commit_activity' =
       ReplaceActivity(repository_commit_activity, Head(rows).id, activityResponse.weeks)
  /\ wpc' = "activitySleep"
  /\ UNCHANGED <<repositories, repository_languages, repository_stats,
                 repository_contributors, syncVars, lastFetch, upstream, callVars, overlap, triggered, res,
                 rows, fb, pending, response, job, activityResponse>>

\* the transaction rolls back and throws (lines 640-642): caught at line 376
ActivitySaveFails ==
  /\ wpc = "activitySave"
  /\ NextActivityRepository
  /\ UNCHANGED <<dbVars, syncVars, lastFetch, upstream, callVars, overlap, triggered, fb, pending, response, job>>

\* await sleep(1000) returns
ActivityPacingDone ==
  /\ wpc = "activitySleep"
  /\ NextActivityRepository
  /\ UNCHANGED <<dbVars, syncVars, lastFetch, upstream, callVars, overlap, triggered, fb, pending, response, job>>

(***************************************************************************)
(* A second job of the worker service beside the one above: a request to   *)
(* update-commit-activity that arrives while updateContributors runs.  The *)
(* handler and updateCommitActivity are the same code; this request has    *)
(* its own locals.                                                         *)
(***************************************************************************)
NoOverlap == [pc |-> "idle", rows |-> << >>, activityResponse |-> NoActivity, res |-> 0]

\* the for loop moves to the next row; after the last row the handler answers
OverlapNext(o) ==
  IF Len(o.rows) > 1
  THEN [o EXCEPT !.rows = Tail(@), !.activityResponse = NoActivity, !.pc = "activity"]
  ELSE [o EXCEPT !.rows = Tail(@), !.activityResponse = NoActivity, !.pc = "done",
                 !.res = 202]

\* POST /api/workers/update-commit-activity, a first time or again: the driving
\* query answers
OverlapActivityStart ==
  /\ overlap.pc \in {"idle", "done"}
  /\ LET selected == SelectRepositories(repositories)
     IN  overlap' = IF selected = << >>
                    THEN [overlap EXCEPT !.pc = "done", !.res = 202]
                    ELSE [overlap EXCEPT !.pc = "activity", !.rows = selected, !.res = 0]
  /\ UNCHANGED <<dbVars, syncVars, workerVars, lastFetch, upstream, triggered, res, callVars>>

\* fetchAndSaveCommitActivity: the request answers (lines 592-615)
OverlapActivityResponse ==
  /\ overlap.pc = "activity"
  /\ \E r \in ActivityResponses :
       overlap' =
         IF ~Ok(r.status)
         THEN IF r.status = 202
              THEN [overlap EXCEPT !.activityResponse = r, !.pc = "activitySleep"]
              ELSE OverlapNext(overlap)
         ELSE [overlap EXCEPT !.activityResponse = r,
                              !.pc = IF ~r.isArray \/ Len(r.weeks) = 0
                                     THEN "activitySleep" ELSE "activitySave"]
  /\ UNCHANGED <<dbVars, syncVars, workerVars, lastFetch, upstream, triggered, res, callVars>>

\* the transaction of lines 617-639 commits
OverlapActivitySave ==
  /\ overlap.pc = "activitySave"
  /\ repository_commit_activity' =
       ReplaceActivity(repository_commit_activity, Head(overlap.rows).id,
                       overlap.activityResponse.weeks)
  /\ overlap' = [overlap EXCEPT !.pc = "activitySleep"]
  /\ UNCHANGED <<repositories, repository_languages, repository_stats,
                 repository_contributors, syncVars, workerVars, lastFetch, upstream,
                 triggered, res, callVars>>

\* the transaction rolls back and throws (lines 640-642): caught at line 376
OverlapActivitySaveFails ==
  /\ overlap.pc = "activitySave"
  /\ overlap' = OverlapNext(overlap)
  /\ UNCHANGED <<dbVars, syncVars, workerVars, lastFetch, upstream, triggered, res, callVars>>

\* await sleep(1000) returns
OverlapActivityPacingDone ==
  /\ overlap.pc = "activitySleep"
  /\ overlap' = OverlapNext(overlap)
  /\ UNCHANGED <<dbVars, syncVars, workerVars, lastFetch, upstream, triggered, res, callVars>>

(***************************************************************************)
(* Two calls of saveContributorsToDB for the same repository in progress   *)
(* at once (two requests to update-contributors, or one beside run-all),   *)
(* statement by statement.  Each runs on its own client; the isolation is  *)
(* the default of PostgreSQL, READ COMMITTED: a statement sees the rows    *)
(* committed before it starts and the writes of its own transaction, and   *)
(* waits for a row that another open transaction has written.              *)
(***************************************************************************)
\* the arguments of a call: the list of the primary path or of the fallback
SaveCalls ==
  {[contributors |-> l, fallbackType |-> NoType, dataType |-> "all_time"]
     : l \in RestLists \ {<< >>}}
  \cup {[contributors |-> SortedContributors(TallyNodes(<< >>, h, 1)),
         fallbackType |-> "User", dataType |-> "recent"]
          : h \in {g \in Histories : TallyNodes(<< >>, g, 1) # << >>}}

\* a call before its BEGIN: position, index of the next contributor, and the
\* uncommitted writes (ids deleted, rows inserted, contributions updated)
NoSave == [pc |-> "called", k |-> 1, del |-> {}, ins |-> {}, upd |-> {}]

\* the github_ids of repository 1 that the open transaction of call t has written
WrittenBy(t) ==
  IF ret[t].pc = "open"
  THEN ret[t].del \cup {r.github_id : r \in ret[t].ins} \cup {u[1] : u \in ret[t].upd}
  ELSE {}

\* BEGIN; DELETE FROM repository_contributors WHERE repository_id = $1
OverlapSaveDelete ==
  \E t \in DOMAIN ret :
    LET visible == {r.github_id : r \in repository_contributors[1]}
    IN  /\ ret[t].pc = "called"
        /\ \A o \in DOMAIN ret \ {t} : visible \cap WrittenBy(o) = {}
        /\ ret' = [ret EXCEPT ![t].pc = "open", ![t].del = visible]
        /\ UNCHANGED <<dbVars, syncVars, workerVars, lastFetch, upstream, overlap, triggered,
                       res, arg>>

\* INSERT .. ON CONFLICT (repository_id, github_id) DO UPDATE SET contributions
\* for the next contributor of the list; one without a login is skipped
OverlapSaveInsert ==
  \E t \in DOMAIN ret :
    /\ ret[t].pc = "open"
    /\ ret[t].k <= Len(arg[t].contributors)
    /\ LET c == arg[t].contributors[ret[t].k]
           committed == {r \in repository_contributors[1] : r.github_id \notin ret[t].del}
       IN  /\ \A o \in DOMAIN ret \ {t} : c.id \notin WrittenBy(o)
           /\ ret' =
                IF c.login = ""
                THEN [ret EXCEPT ![t].k = @ + 1]
                ELSE IF \E r \in committed : r.github_id = c.id
                THEN [ret EXCEPT ![t].k = @ + 1,
                                 ![t].upd = {u \in @ : u[1] # c.id}
                                              \cup {<<c.id, c.contributions>>}]
                ELSE [ret EXCEPT ![t].k = @ + 1,
                                 ![t].ins = InsertContributor(@, c, arg[t].fallbackType)]
    /\ UNCHANGED <<dbVars, syncVars, workerVars, lastFetch, upstream, overlap, triggered,
                   res, arg>>

\* UPDATE repository_stats (no row of the repository here); COMMIT
OverlapSaveCommit ==
  \E t \in DOMAIN ret :
    /\ ret[t].pc = "open"
    /\ ret[t].k > Len(arg[t].contributors)
    /\ repository_contributors' =
         [repository_contributors EXCEPT ![1] =
            { IF \E u \in ret[t].upd : u[1] = r.github_id
              THEN [r EXCEPT !.contributions =
                      (CHOOSE u \in ret[t].upd : u[1] = r.github_id)[2]]
              ELSE r
                : r \in {x \in @ : x.github_id \notin ret[t].del} }
            \cup ret[t].ins]
    /\ ret' = [ret EXCEPT ![t] = [NoSave EXCEPT !.pc = "committed"]]
    /\ UNCHANGED <<repositories, repository_languages, repository_stats,
                   repository_commit_activity, syncVars, workerVars, lastFetch, upstream,
                   overlap, triggered, res, arg>>

\* a statement fails (a deadlock detected among them): ROLLBACK; throw error
OverlapSaveRollback ==
  \E t \in DOMAIN ret :
    /\ ret[t].pc = "open"
    /\ ret' = [ret EXCEPT ![t] = [NoSave EXCEPT !.pc = "failed"]]
    /\ UNCHANGED <<dbVars, syncVars, workerVars, lastFetch, upstream, overlap, triggered,
                   res, arg>>

(***************************************************************************)
(* The connection pool under the enrichment jobs.  updateContributors and  *)
(* updateCommitActivity take a client at their start and release it in     *)
(* their finally; the driving query goes through pool.query, which takes   *)
(* and returns a client of its own; every save takes one more for its      *)
(* transaction.  arg.max is the size of the pool; ret holds, per job, its  *)
(* position, the clients it holds and the rows it has left.                *)
(***************************************************************************)
NoJob == [pc |-> "idle", held |-> 0, left |-> 0]

RECURSIVE HeldFrom(_)
\* the clients checked out by jobs j..Len(ret)
HeldFrom(j) == IF j > Len(ret) THEN 0 ELSE ret[j].held + HeldFrom(j + 1)

\* the clients of the pool that are not checked out
IdleClients == arg.max - HeldFrom(1)

\* const client = await pool.connect() at the start of a job
JobConnect ==
  \E j \in DOMAIN ret :
    /\ ret[j].pc = "idle"
    /\ IdleClients > 0
    /\ ret' = [ret EXCEPT ![j].pc = "select", ![j].held = 1]
    /\ UNCHANGED <<dbVars, syncVars, workerVars, lastFetch, upstream, overlap, triggered,
                   res, arg>>

\* const { rows } = await pool.query(query, ..): a client is taken and returned
JobSelect ==
  \E j \in DOMAIN ret, n \in 0..MaxRepos :
    /\ ret[j].pc = "select"
    /\ IdleClients > 0
    /\ ret' = [ret EXCEPT ![j].pc = "loop", ![j].left = n]
    /\ UNCHANGED <<dbVars, syncVars, workerVars, lastFetch, upstream, overlap, triggered,
                   res, arg>>

\* a repository of the loop that ends without a save (skipped, or failed
\* before the save)
JobSkipRow ==
  \E j \in DOMAIN ret :
    /\ ret[j].pc = "loop"
    /\ ret[j].left > 0
    /\ ret' = [ret EXCEPT ![j].left = @ - 1]
    /\ UNCHANGED <<dbVars, syncVars, workerVars, lastFetch, upstream, overlap, triggered,
                   res, arg>>

\* a repository of the loop reaches its save: the call asks for a client
JobSaveCalled ==
  \E j \in DOMAIN ret :
    /\ ret[j].pc = "loop"
    /\ ret[j].left > 0
    /\ ret' = [ret EXCEPT ![j].pc = "saveConnect"]
    /\ UNCHANGED <<dbVars, syncVars, workerVars, lastFetch, upstream, overlap, triggered,
                   res, arg>>

\* const client = await pool.connect() of the save
JobSaveConnect ==
  \E j \in DOMAIN ret :
    /\ ret[j].pc = "saveConnect"
    /\ IdleClients > 0
    /\ ret' = [ret EXCEPT ![j].pc = "saving", ![j].held = 2]
    /\ UNCHANGED <<dbVars, syncVars, workerVars, lastFetch, upstream, overlap, triggered,
                   res, arg>>

\* COMMIT or ROLLBACK, then client.release() in the finally of the save
JobSaveRelease ==
  \E j \in DOMAIN ret :
    /\ ret[j].pc = "saving"
    /\ ret' = [ret EXCEPT ![j].pc = "loop", ![j].held = 1, ![j].left = @ - 1]
    /\ UNCHANGED <<dbVars, syncVars, workerVars, lastFetch, upstream, overlap, triggered,
                   res, arg>>

\* the loop is over: client.release() in the finally of the job
JobReturn ==
  \E j \in DOMAIN ret :
    /\ ret[j].pc = "loop"
    /\ ret[j].left = 0
    /\ ret' = [ret EXCEPT ![j].pc = "done", ![j].held = 0]
    /\ UNCHANGED <<dbVars, syncVars, workerVars, lastFetch, upstream, overlap, triggered,
                   res, arg>>

(***************************************************************************)
(* The score calculator called on its own: calculateAndSaveStats lines     *)
(* 319-320, for one repository node and one daysSinceCommit.               *)
(***************************************************************************)
\* the fields of a repository node the two score functions read
ScoreRepos ==
  [ stargazerCount        : {0, 2, 1000},
    forkCount             : {0, 200},
    issues                : {0, 10, 150},
    isArchived            : BOOLEAN,
    isDisabled            : BOOLEAN,
    hasIssuesEnabled      : BOOLEAN,
    hasDiscussionsEnabled : BOOLEAN,
    releaseAge            : {Null, 10, 100} ]

\* daysSinceCommit: null, and values on both sides of every threshold
ScoreDays == {Null, 3, 7, 8, 30, 60, 90, 91, 200, 365, 366, 400}

NoScores == [activityScore |-> Null, healthScore |-> Null]

\* const activityScore = this.calculateSimpleActivityScore(repo, daysSinceCommit)
CallActivityScore ==
  /\ ret = NoScores
  /\ ret' = [ret EXCEPT !.activityScore =
                calculateSimpleActivityScore(arg.repo, arg.daysSinceCommit)]
  /\ UNCHANGED <<dbVars, syncVars, workerVars, lastFetch, upstream, overlap, triggered, res, arg>>

\* const healthScore = this.calculateSimpleHealthScore(repo, daysSinceCommit)
CallHealthScore ==
  /\ ret # NoScores
  /\ ret.healthScore = Null
  /\ ret' = [ret EXCEPT !.healthScore =
                calculateSimpleHealthScore(arg.repo, arg.daysSinceCommit)]
  /\ UNCHANGED <<dbVars, syncVars, workerVars, lastFetch, upstream, overlap, triggered, res, arg>>

(***************************************************************************)
(* Listing route: GET /api/repos/top, called page after page by a client   *)
(* that sends back the nextCursor of the page before.                      *)
(***************************************************************************)
\* the stored repositories, by the two columns the query orders by: ids
\* 1..MaxListed, star counts that repeat
ListedTables ==
  { {[id |-> i, stars_count |-> s[i]] : i \in 1..MaxListed}
      : s \in [1..MaxListed -> {0, 5, 7}] }

\* req.query.limit: absent (Null) or a number
LimitParams == {Null, 0, 1, 2, 3}

\* Math.min(parseInt(req.query.limit) || 30, 300)
PageLimit(q) == Min(IF q = Null \/ q = 0 THEN defaultLimit ELSE q, maxLimit)

NoCursor == [lastStars |-> Null, lastId |-> Null]

\* (variant: the cursor compares the star count alone)
AfterCursorByStarsOnly(r, c) == r.stars_count < c.lastStars

\* WHERE (r.stars_count, r.id) < ($1, $2): the row comparison of SQL
AfterCursor(r, c) ==
  \/ r.stars_count < c.lastStars
  \/ r.stars_count = c.lastStars /\ r.id < c.lastId

\* ORDER BY r.stars_count DESC, r.id DESC: a is listed before b
ListedBefore(a, b) ==
  \/ a.stars_count > b.stars_count
  \/ a.stars_count = b.stars_count /\ a.id > b.id

\* ORDER BY .. LIMIT n over a set of rows
RECURSIVE OrderedLimit(_, _)
OrderedLimit(set, n) ==
  IF set = {} \/ n <= 0 THEN << >>
  ELSE LET first == CHOOSE r \in set : \A o \in set \ {r} : ListedBefore(r, o)
       IN  <<first>> \o OrderedLimit(set \ {first}, n - 1)

\* lines 96-133: the response to one request
TopRepos(table, q, c) ==
  LET limit == PageLimit(q)
      found == IF c.lastStars # Null /\ c.lastId # Null
               THEN {r \in table : AfterCursor(r, c)}
               ELSE table
      data == OrderedLimit(found, limit)
      hasMore == Len(data) = limit
  IN  [ data       |-> data,
        hasMore    |-> hasMore,
        nextCursor |-> IF hasMore
                       THEN [lastStars |-> data[Len(data)].stars_count,
                             lastId    |-> data[Len(data)].id]
                       ELSE NoCursor ]

\* the first request, without a cursor
GetTopRepos ==
  /\ ret = << >>
  /\ ret' = <<TopRepos(arg.table, arg.limit, NoCursor)>>
  /\ UNCHANGED <<dbVars, syncVars, workerVars, lastFetch, upstream, overlap, triggered, res, arg>>

\* a further request, with the nextCursor of the last response
GetMoreTopRepos ==
  /\ ret # << >>
  /\ ret[Len(ret)].hasMore
  /\ ret' = Append(ret, TopRepos(arg.table, arg.limit, ret[Len(ret)].nextCursor))
  /\ UNCHANGED <<dbVars, syncVars, workerVars, lastFetch, upstream, overlap, triggered, res, arg>>

(***************************************************************************)
(* Properties.                                                             *)
(***************************************************************************)
StatsOf(g) == repository_stats[repositories[g].id]
HasStats(g) == g \in DOMAIN repositories /\ repositories[g].id \in DOMAIN repository_stats

\* a step in which the page attempt of the sync run throws
PageAttemptFails == spc \in {"paging", "fetched", "saved"} /\ serr = NoError /\ serr' # NoError
Recoverable(msg) == IsRateLimit(msg) \/ IsTransient(msg)

\* C1: whenever a sync run is past a page (the page is before the cursor), the
\* repositories of that page and their stats rows are committed; and while the
\* stats of the current page are pending, its repositories are committed.
C1_PagesBeforeCursorCommitted ==
  /\ \A g \in 1..cursor : HasStats(g)
  /\ spc = "saved" =>
       \A i \in DOMAIN batch.repos : batch.repos[i].databaseId \in DOMAIN repositories

\* C1 witness: the second page is being requested, the first is committed
C1_Witness ==
  /\ spc = "paging"
  /\ cursor > 0
  /\ \A g \in 1..cursor : HasStats(g)

\* C2: the repository row and the stats row of every stored repository come
\* from the same batch: there is a stats row, and it holds the metrics of the
\* snapshot the repository row holds.
C2_BatchCommittedAtomically ==
  \A g \in DOMAIN repositories :
    \E v \in Versions :
      /\ repositories[g].stars_count = Snapshot(g, v).stargazerCount
      /\ HasStats(g)
      /\ StatsOf(g).commits_last_year = Snapshot(g, v).historyTotalCount

\* C3: a page attempt that fails with a rate-limit or transient error leaves
\* the run in backoff with the cursor, the counter and the tables unchanged,
\* and the backoff leads back to the request of the same page in the state the
\* failed attempt started from (the run keeps no count of its retries).
C3_RecoverableErrorRetriesSamePage ==
  [][ /\ (PageAttemptFails /\ Recoverable(serr')) =>
           /\ spc' = "backoff"
           /\ UNCHANGED <<cursor, fetchedTotal, totalLimit, dbVars>>
      /\ (spc = "backoff" /\ spc' # "backoff") =>
           /\ spc' = "paging"
           /\ serr' = NoError
           /\ UNCHANGED <<cursor, fetchedTotal, totalLimit, batch, triggered>>
    ]_vars

\* C3 witness: the run is in backoff on a page after the first
C3_Witness ==
  /\ spc = "backoff"
  /\ IsTransient(serr)
  /\ cursor > 0
  /\ fetchedTotal > 0

\* C4: a page attempt that fails with any other error leaves the run aborted
\* with the tables as they were before the failed unit; an aborted run stays
\* aborted, requests no page, and no stored row goes away.
C4_OtherErrorAborts ==
  [][ /\ (PageAttemptFails /\ ~Recoverable(serr')) =>
           /\ spc' = "aborted"
           /\ UNCHANGED <<dbVars, cursor, fetchedTotal>>
      /\ (spc = "aborted" /\ triggered' = triggered) =>
           /\ spc' = "aborted"
           /\ UNCHANGED <<repositories, repository_languages, cursor, fetchedTotal, serr>>
      /\ DOMAIN repositories \subseteq DOMAIN repositories'
      /\ DOMAIN repository_stats \subseteq DOMAIN repository_stats'
    ]_vars

\* C4 witness: the run aborted on a persistence failure after it had committed
\* a page
C4_Witness ==
  /\ spc = "aborted"
  /\ serr = MsgDatabase
  /\ cursor > 0
  /\ HasStats(1)

\* C5: a page attempt that succeeds ends the run exactly when the page has no
\* next page or holds fewer repositories than requested, and otherwise moves
\* the cursor to the end of the page; after the pacing delay the run ends
\* exactly when the target is reached; and the run becomes done in no other way.
C5_DoneExactlyAtEndOrTarget ==
  [][ /\ (spc = "saved" /\ spc' # "saved" /\ serr' = NoError) =>
           IF ~batch.hasNext \/ Len(batch.repos) < batch.remaining
           THEN spc' = "done" /\ cursor' = cursor
           ELSE spc' = "sleeping" /\ cursor' = batch.nextCursor
      /\ (spc = "sleeping" /\ spc' # "sleeping") =>
           spc' = IF fetchedTotal >= totalLimit THEN "done" ELSE "paging"
      /\ (spc # "done" /\ spc' = "done") =>
           \/ spc = "sleeping" /\ fetchedTotal >= totalLimit
           \/ spc = "saved" /\ (~batch.hasNext \/ Len(batch.repos) < batch.remaining)
           \/ /\ spc = "paging"
              /\ Len(batch'.repos) = 0
              /\ ~batch'.hasNext \/ Len(batch'.repos) < batch'.remaining
    ]_vars

\* C5 witness: a run that ended below its target, after a first page that did
\* not end it
C5_Witness ==
  /\ spc = "done"
  /\ cursor > 0
  /\ fetchedTotal < totalLimit
  /\ fetchedTotal > 0

\* C6: for every repository with a stats row that has had a contributor save
\* committed, contributors_data_type is recent exactly when that last save
\* came from the fallback path (and all_time when it came from the primary).
C6_DataTypeFollowsLastFetch ==
  \A g \in DOMAIN repositories :
    HasStats(g) =>
      /\ StatsOf(g).contributors_data_type \in {"all_time", "recent"}
      /\ StatsOf(g).contributors_data_type = "recent"
           <=> lastFetch[repositories[g].id] = "recent"

\* C7: a step of the sync run leaves contributors_data_type of every existing
\* stats row unchanged, and a step of the contributors job changes no other
\* field of any stats row (and adds or removes no stats row).
C7_WritersKeepToTheirFields ==
  [][ /\ spc' # spc =>
           \A id \in DOMAIN repository_stats :
             /\ id \in DOMAIN repository_stats'
             /\ repository_stats'[id].contributors_data_type
                  = repository_stats[id].contributors_data_type
      /\ wpc' # wpc =>
           /\ DOMAIN repository_stats' = DOMAIN repository_stats
           /\ \A id \in DOMAIN repository_stats :
                [repository_stats'[id] EXCEPT !.contributors_data_type =
                   repository_stats[id].contributors_data_type] = repository_stats[id]
    ]_vars

\* C7 witness: the contributors job has just flagged an existing stats row
\* recent, and the sync run is about to upsert the stats of that repository
C7_Witness ==
  /\ wpc = "sleep"
  /\ pending.dataType = "recent"
  /\ pending.repoId \in DOMAIN repository_stats
  /\ repository_stats[pending.repoId].contributors_data_type = "recent"
  /\ spc = "saved"
  /\ \E i \in DOMAIN batch.repos :
       /\ batch.repos[i].databaseId \in DOMAIN repositories
       /\ repositories[batch.repos[i].databaseId].id = pending.repoId

\* C8: every stored repository has exactly one stats row.
C8_ExactlyOneStatsRow ==
  \A g \in DOMAIN repositories :
    Cardinality({id \in DOMAIN repository_stats : id = repositories[g].id}) = 1

\* the rows a snapshot gives when every stored field takes the snapshot's value
RepositoryRowOf(repo, repoId) ==
  [ id                |-> repoId,
    github_id         |-> repo.databaseId,
    full_name         |-> repo.nameWithOwner,
    stars_count       |-> repo.stargazerCount,
    forks_count       |-> repo.forkCount,
    open_issues_count |-> repo.issues,
    license_key       |-> repo.licenseKey,
    is_archived       |-> repo.isArchived,
    is_disabled       |-> repo.isDisabled,
    has_issues        |-> repo.hasIssuesEnabled,
    has_discussions   |-> repo.hasDiscussionsEnabled,
    network_count     |-> repo.forkCount ]

LanguageRowsOf(repo) ==
  { [ language_name |-> e.name,
      bytes_count   |-> e.size,
      percentage    |-> (e.size * 100) \div SumSizes(repo.languages) ]
    : e \in Range(repo.languages) }

\* C9: when a page has been processed, the stored repository, language and
\* stats rows of each of its repositories hold the values of the page's
\* snapshot in every field (so processing it again changes nothing, and a
\* changed snapshot replaces every field).
C9_StoredRowsEqualSnapshot ==
  [][ (spc = "saved" /\ spc' \in {"sleeping", "done"}) =>
        \A i \in DOMAIN batch.repos :
          LET repo == batch.repos[i]
              g == repo.databaseId
              repoId == repositories'[g].id
          IN  /\ repositories'[g] = RepositoryRowOf(repo, repoId)
              /\ repository_languages'[repoId] = LanguageRowsOf(repo)
              /\ repository_stats'[repoId].commits_last_year = repo.historyTotalCount
              /\ repository_stats'[repoId].days_since_last_commit = repo.daysSincePush
              /\ repository_stats'[repoId].days_since_last_release = repo.releaseAge
              /\ repository_stats'[repoId].total_releases = repo.releasesTotalCount
              /\ repository_stats'[repoId].health_score
                   = calculateSimpleHealthScore(repo, repo.daysSincePush)
    ]_vars

\* C10: when the refresh of a repository whose primary fetch answered
\* too-large has made its fallback requests and persisted their tally, the
\* requests were one sequence of at most maxPages, and the repository's
\* contributors_data_type is recent.
C10_FallbackLeavesRecent ==
  (wpc = "sleep" /\ fb.started = 1 /\ pending.dataType = "recent"
     /\ lastFetch[pending.repoId] = "recent") =>
    /\ fb.requests \in 1..maxPages
    /\ pending.repoId \in DOMAIN repository_stats
    /\ repository_stats[pending.repoId].contributors_data_type = "recent"

\* the answer of the contributors endpoint is the too-large one
TooLarge(r) == r.status = 403 /\ Includes(r.message, "list is too large")

\* a step in which the primary request of the repository at hand ends
PrimaryEnds ==
  wpc = "primary" /\ (rows' # rows \/ wpc' # wpc \/ response' # response)

\* C11: the fallback starts only in a step in which the primary request is
\* answered with status 403 and a message that has the too-large substring.
C11_FallbackOnlyOnTooLarge ==
  [][ ((wpc # "fallback" /\ wpc' = "fallback") \/ (fb.started = 0 /\ fb'.started # 0)) =>
        /\ wpc = "primary"
        /\ response'.status = 403
        /\ Includes(response'.message, "list is too large")
    ]_vars

\* C11 witness: a 403 without the substring was answered for the first
\* repository, and the job is at the second with no fallback started
C11_Witness ==
  /\ wpc = "primary"
  /\ response.status = 403
  /\ ~Includes(response.message, "list is too large")
  /\ fb.started = 0
  /\ Len(rows) = 1

\* C12: when the primary request fails in any other way (a status that is
\* neither success nor too-large, or no answer at all), no fallback and no
\* save start, the stored contributors and stats rows stay as they are, and
\* the job leaves the repository: the next one, if any, is requested.
C12_OtherFailureSkipsRepository ==
  [][ (PrimaryEnds /\ response'.status # 200 /\ ~TooLarge(response')) =>
        /\ fb'.started = 0
        /\ wpc' \in {"primary", "done"}
        /\ repository_contributors' = repository_contributors
        /\ repository_stats' = repository_stats
        /\ rows' = Tail(rows)
        /\ wpc' = "primary" <=> rows' # << >>
    ]_vars

\* C12 witness: the primary request of the first repository was answered 401,
\* and the job is requesting the second
C12_Witness ==
  /\ wpc = "primary"
  /\ response.status = 401
  /\ Len(rows) = 1
  /\ Head(rows).id = 2

\* C13: after the upstream has reported invalid credentials, the run that got
\* the report attempts nothing further: a sync run is aborted, and a
\* contributors job requests no further repository.
C13_AuthFailureAbortsRun ==
  /\ serr = MsgBadCreds => spc = "aborted"
  /\ response.status = 401 => wpc \in {"idle", "done", "failed"}

\* C19: a trigger is answered without waiting for its job: whenever a trigger
\* has fired, its answer has been sent, whatever the job is doing.
C19_TriggersAnswerAtOnce ==
  \A t \in triggered : res[t] # 0

\* C20: when a sync run has aborted, the trigger that started it has been
\* answered with an error status.
C20_AbortedRunAnswersError ==
  \A t \in {"quick", "comprehensive"} :
    (spc = "aborted" /\ t \in triggered /\ totalLimit = LimitOf(t)) => res[t] = 500

\* the rows a list of fetched contributors gives
ContributorRowsOf(p) == InsertContributors({}, p.contributors, p.fallbackType, 1)

\* C14: when the refresh of a repository has ended without an error, the
\* stored set of the repository is the set that was fetched: the rows of the
\* fetched list, and none when the list, or the tally of the fallback, is empty.
C14_StoredSetIsFetchedSet ==
  /\ (wpc = "sleep" /\ fb.error = NoError) =>
       repository_contributors[Head(rows).id] = ContributorRowsOf(pending)
  /\ wpc = "activitySleep" =>
       repository_commit_activity[Head(rows).id] = InsertWeeks({}, activityResponse.weeks, 1)

LoopPositions ==
  {"primary", "fallback", "save", "sleep", "activity", "activitySave", "activitySleep"}

\* a step in which a write unit fails: the batch upsert, the stats upsert, the
\* contributor replacement, the commit-activity replacement
WriteUnitFails ==
  \/ PageAttemptFails /\ spc \in {"fetched", "saved"}
  \/ wpc = "save" /\ (wpc' \notin {"save", "sleep"} \/ fb'.error # fb.error)
  \/ wpc = "activitySave" /\ wpc' \notin {"activitySave", "activitySleep"}

\* C16: a step in which a write unit fails leaves every table as it was
\* before the unit began.
C16_FailedUnitLeavesNoWrite ==
  [][ WriteUnitFails => UNCHANGED dbVars ]_vars

\* C16 witness: the contributor replacement of a repository has failed on the
\* fallback path, and the repository's stored set is not the one it was saving
C16_Witness ==
  /\ wpc = "sleep"
  /\ fb.error = MsgDatabase
  /\ pending.dataType = "recent"
  /\ repository_contributors[pending.repoId] # ContributorRowsOf(pending)
  /\ lastFetch[pending.repoId] = "none"

\* C17: the rows of a job's driving query are taken one at a time from the
\* head of the list: the list changes only by a driving query or by dropping
\* its head when the attempt of that row has ended, whatever its outcome; the
\* job fails only in a driving query, never in the loop; and when the last row
\* is dropped the job has completed (run-all goes on to its second job).
C17_EveryRowAttemptedOnce ==
  [][ /\ rows' # rows =>
           \/ /\ wpc \in {"idle", "done", "failed", "activitySelect"}
              /\ rows' = SelectRepositories(repositories)
           \/ /\ wpc \in LoopPositions
              /\ rows' = Tail(rows)
              /\ wpc' = IF rows' # << >>
                        THEN (IF wpc \in {"primary", "fallback", "save", "sleep"}
                              THEN "primary" ELSE "activity")
                        ELSE (IF wpc \in {"primary", "fallback", "save", "sleep"}
                                 /\ job = "runAll"
                              THEN "activitySelect" ELSE "done")
      /\ (wpc \in LoopPositions /\ wpc' \notin LoopPositions) => rows' = << >>
      /\ wpc \in LoopPositions => rows # << >>
      /\ wpc' = "failed" => wpc \in {"idle", "done", "failed", "activitySelect"}
    ]_vars

\* C17 witness: a run-all job has completed after the contributors of the
\* first repository could not be refreshed and those of the second were
C17_Witness ==
  /\ job = "runAll"
  /\ wpc = "done"
  /\ rows = << >>
  /\ lastFetch[1] = "none"
  /\ lastFetch[2] # "none"
  /\ repository_commit_activity[2] # {}

\* the answer of the commit_activity endpoint is computation-in-progress, or
\* it carries no week
SoftSkip(r) == r.status = 202 \/ (r.status = 200 /\ Len(r.weeks) = 0)

\* C18: a commit-activity request answered with computation-in-progress or
\* with an empty result changes no stored week, takes the normal way out (the
\* pacing delay, not the catch of the loop), and after the delay the job drops
\* the repository: it is not requested again in the run.
C18_SoftSkipKeepsSeries ==
  [][ /\ (wpc = "activity" /\ activityResponse' # NoActivity /\ SoftSkip(activityResponse')) =>
           /\ wpc' = "activitySleep"
           /\ UNCHANGED <<repository_commit_activity, rows>>
      /\ (wpc = "activitySleep" /\ SoftSkip(activityResponse) /\ wpc' # wpc) =>
           /\ rows' = Tail(rows)
           /\ UNCHANGED repository_commit_activity
    ]_vars

\* C18 witness: the job of the second request got computation-in-progress
\* for a repository that has a stored series
C18_Witness ==
  /\ job = "activityAgain"
  /\ wpc = "activitySleep"
  /\ activityResponse.status = 202
  /\ repository_commit_activity[Head(rows).id] # {}

\* C23: every health score computed is an integer from 0 to 100, and it is 0
\* when the repository is archived or disabled.
C23_HealthScoreInRange ==
  ret.healthScore # Null =>
    /\ ret.healthScore \in 0..100
    /\ (arg.repo.isArchived \/ arg.repo.isDisabled) => ret.healthScore = 0

\* C23 witness: an archived repository with every additive term earned
C23_Witness ==
  /\ ret.healthScore = 0
  /\ arg.repo.isArchived /\ ~arg.repo.isDisabled
  /\ arg.daysSinceCommit = 3
  /\ arg.repo.releaseAge = 10
  /\ arg.repo.hasIssuesEnabled /\ arg.repo.issues > 0
  /\ arg.repo.hasDiscussionsEnabled

\* the open-issues term of the activity score, in hundredths
IssuesTerm(repo) == 50 * Min(repo.issues, 100)

\* days > 365, and 90 < days <= 365
OldDays == {d \in ScoreDays : d > 365}
MidDays == {d \in ScoreDays : d > 90 /\ d <= 365}

\* C24 as stated: the activity score at more than 365 days is half the score
\* of the same repository at 90 < days <= 365, whatever its stars, forks and
\* open issues.
C24_OldScoreIsHalf ==
  (ret.activityScore # Null /\ arg.daysSinceCommit \in OldDays) =>
    \A d \in MidDays :
      2 * ret.activityScore = calculateSimpleActivityScore(arg.repo, d)

\* C24 amended: less the open-issues term, which is added after the halving,
\* the score at more than 365 days is half the score at 90 < days <= 365, up to
\* the rounding of the two scores: twice the one and the other differ by at
\* most 0.01.
C24_OldScoreIsHalfBeforeIssues ==
  (ret.activityScore # Null /\ arg.daysSinceCommit \in OldDays) =>
    \A d \in MidDays :
      LET old == ret.activityScore - IssuesTerm(arg.repo)
          mid == calculateSimpleActivityScore(arg.repo, d) - IssuesTerm(arg.repo)
      IN  2 * old - mid \in -1..1

\* C24 witness: a score computed at more than 365 days for a repository with
\* stars, forks and open issues
C24_Witness ==
  /\ ret.activityScore # Null
  /\ arg.daysSinceCommit = 400
  /\ arg.repo.stargazerCount = 2 /\ arg.repo.forkCount = 200 /\ arg.repo.issues = 10
  /\ ret.activityScore = 8644

\* the scenario of the spec: stars 1000, forks 200, 10 open issues, pushed 3
\* days ago, not archived (nor disabled), no release, discussions disabled
Scenario ==
  /\ arg.repo.stargazerCount = 1000 /\ arg.repo.forkCount = 200 /\ arg.repo.issues = 10
  /\ arg.daysSinceCommit = 3
  /\ ~arg.repo.isArchived /\ ~arg.repo.isDisabled
  /\ arg.repo.releaseAge = Null
  /\ ~arg.repo.hasDiscussionsEnabled

\* C25 as stated: the health score of the scenario is 80.
C25_ScenarioHealthIs80 ==
  (Scenario /\ ret.healthScore # Null) => ret.healthScore = 80

\* C25 amended: the health score of the scenario is 85 when issues are
\* enabled and 80 when they are not.
C25_ScenarioHealthIs85 ==
  (Scenario /\ ret.healthScore # Null) =>
    ret.healthScore = IF arg.repo.hasIssuesEnabled THEN 85 ELSE 80

\* C25 witness: the scenario with issues enabled, scored
C25_Witness ==
  /\ Scenario /\ arg.repo.hasIssuesEnabled
  /\ ret.healthScore = 85

\* C26 as stated: the activity score of the scenario is 505.07.
C26_ScenarioActivityIs505 ==
  (Scenario /\ ret.activityScore # Null) => ret.activityScore = 50507

\* C26 amended: the activity score of the scenario is
\* 100 log10(1001) + 50 log10(201) + 200 + 5 rounded to two decimals, 620.20.
C26_ScenarioActivityIs620 ==
  (Scenario /\ ret.activityScore # Null) =>
    /\ ret.activityScore = 62020
    /\ ret.activityScore =
         RoundToHundredths(100 * Log10(1001) + 50 * Log10(201) + 205 * 1000000)

\* C26 witness: the scenario, scored
C26_Witness ==
  /\ Scenario
  /\ ret.activityScore = 62020

\* C22: of two consecutive pages of the listing, the second shares no
\* repository with the first, and a repository listed after the last row of the
\* first page is missing from the second only if the second is full and the
\* repository is listed after its last row.
C22_ConsecutivePagesTile ==
  \A i \in 1..(Len(ret) - 1) :
    LET first == ret[i].data
        second == ret[i + 1].data
        boundary == first[Len(first)]
    IN  /\ Range(first) \cap Range(second) = {}
        /\ \A r \in arg.table :
             (ListedBefore(boundary, r) /\ r \notin Range(second)) =>
               /\ Len(second) = PageLimit(arg.limit)
               /\ ListedBefore(second[Len(second)], r)

\* C22 witness: two pages fetched, the boundary between them inside a run of
\* equal star counts
C22_Witness ==
  /\ Len(ret) >= 2
  /\ Len(ret[2].data) > 0
  /\ ret[1].data[Len(ret[1].data)].stars_count = ret[2].data[1].stars_count

\* the message of an upstream failure of the 5xx / gateway class
IsServerError(msg) == \E code \in {"500", "502", "503", "504"} : Includes(msg, code)

\* C27: a page attempt that fails with a 500, 502, 503 or 504 leaves the run
\* in backoff on the same page, never aborted.
C27_ServerErrorsRetried ==
  [][ (PageAttemptFails /\ IsServerError(serr')) =>
        /\ spc' = "backoff"
        /\ UNCHANGED <<cursor, fetchedTotal>> ]_vars

\* C28: a page request that is answered asked for at most batchSize
\* repositories and at most the target less the count, and got no more than it
\* asked for; the count changes only when a run starts (to 0) and when the
\* stats of a page commit (by the repositories of that page); a failed page
\* attempt leaves it unchanged; and it never exceeds the target.
C28_CountWithinTarget ==
  [][ /\ (spc = "paging" /\ spc' \in {"fetched", "sleeping", "done"}) =>
           /\ batch'.remaining <= batchSize
           /\ batch'.remaining <= totalLimit - fetchedTotal
           /\ Len(batch'.repos) <= batch'.remaining
      /\ fetchedTotal' # fetchedTotal =>
           \/ triggered' # triggered /\ fetchedTotal' = 0
           \/ /\ spc = "saved"
              /\ fetchedTotal' = fetchedTotal + Len(batch.repos)
              /\ repository_stats' = SaveStats(repository_stats, repositories, batch.repos, 1)
      /\ PageAttemptFails => fetchedTotal' = fetchedTotal
      /\ fetchedTotal' <= totalLimit'
    ]_vars

\* C28 witness: a run has ended with its count at the target
C28_Witness ==
  /\ spc = "done"
  /\ totalLimit > 0
  /\ fetchedTotal = totalLimit
  /\ cursor > 0

\* C29: when the batch transaction of a page commits, the stored language
\* rows of each repository of the page are the rows of its snapshot's
\* languages (none when the snapshot has none), committed in the step that
\* commits the repository row.
C29_LanguagesReplaced ==
  [][ (spc = "fetched" /\ spc' = "saved") =>
        \A i \in DOMAIN batch.repos :
          LET repo == batch.repos[i]
              g == repo.databaseId
          IN  /\ g \in DOMAIN repositories'
              /\ repositories'[g].stars_count = repo.stargazerCount
              /\ repository_languages'[repositories'[g].id] = LanguageRowsOf(repo)
    ]_vars

\* the commits of the pages a fallback has fetched, their authors with a user
\* identity, and the number of fetched commits of an author
FetchedCommits(h, pages) == SubSeq(h, 1, Min(pages * historyPageSize, Len(h)))
AuthorsOf(commits) == Range(commits) \ {0}
CommitsBy(u, commits) == Cardinality({k \in DOMAIN commits : commits[k] = u})

\* C30: the list a fallback hands to the save holds, for the commits of the
\* pages it fetched, authors with a user identity only, each once and with
\* the number of the fetched commits that are theirs; it holds topContributors
\* of them, or all when there are fewer, and no author left out has more
\* commits than one that is in; and the set the save commits is that list.
C30_FallbackTallyIsReference ==
  [][ /\ (wpc = "fallback" /\ wpc' = "save") =>
           LET commits == FetchedCommits(fb.history, fb'.i)
               list == pending'.contributors
               ids == {list[k].id : k \in DOMAIN list}
           IN  /\ pending'.dataType = "recent"
               /\ ids \subseteq AuthorsOf(commits)
               /\ Cardinality(ids) = Len(list)
               /\ Len(list) = Min(topContributors, Cardinality(AuthorsOf(commits)))
               /\ \A k \in DOMAIN list :
                    /\ list[k].contributions = CommitsBy(list[k].id, commits)
                    /\ list[k].login = User(list[k].id).login
               /\ \A a \in AuthorsOf(commits) \ ids :
                    \A k \in DOMAIN list : CommitsBy(a, commits) <= list[k].contributions
      /\ (wpc = "save" /\ pending.dataType = "recent" /\ wpc' = "sleep" /\ fb'.error = fb.error) =>
           repository_contributors'[pending.repoId] =
             { [ github_id     |-> pending.contributors[k].id,
                 login         |-> pending.contributors[k].login,
                 contributions |-> pending.contributors[k].contributions,
                 type          |-> "User" ] : k \in DOMAIN pending.contributors }
    ]_vars

\* C30 witness: a fallback stopped by the page cap is saving a list that is
\* full, with unequal counts, and has left an author out
C30_Witness ==
  /\ wpc = "save"
  /\ pending.dataType = "recent"
  /\ fb.i = maxPages /\ fb.hasNextPage
  /\ Len(pending.contributors) = topContributors
  /\ pending.contributors[1].contributions > pending.contributors[topContributors].contributions

C31_NotFoundOrEmptyIsNoError ==
  [][ /\ fb'.error \notin {MsgNotFound, MsgMissing}
      /\ (wpc = "fallback" /\ wpc' = "sleep" /\ fb'.error = NoError)
           => /\ UNCHANGED <<dbVars, lastFetch, pending, rows>>
              /\ fb'.contributorsMap = << >> ]_vars

\* a second job's fallback for a repository with stored rows has stopped, after
\* a page was tallied and with more pages announced, without an error kept
C31_Witness ==
  /\ job = "contributorsAgain" /\ wpc = "sleep"
  /\ fb.error = NoError
  /\ fb.i >= 1 /\ fb.i < maxPages /\ fb.hasNextPage /\ fb.requests > fb.i
  /\ pending = NoPending
  /\ repository_contributors[Head(rows).id] # {}

\* C32: for a repository neither archived nor disabled the health score is 50,
\* plus 30 / 20 / 10 for a last commit at most 7 / 30 / 90 days old, minus 20
\* for one more than 365 days old, nothing for 90 < days <= 365 or no commit
\* date, plus 10 for a release at most 90 days old, plus 5 for open issues with
\* issues enabled, plus 5 for discussions enabled, kept within 0..100.
C32_HealthScoreIsSumOfTerms ==
  (ret.healthScore # Null /\ ~arg.repo.isArchived /\ ~arg.repo.isDisabled) =>
    LET d == arg.daysSinceCommit
        commitTerm == CASE d = Null -> 0
                        [] d # Null /\ d <= 7 -> 30
                        [] d # Null /\ d > 7 /\ d <= 30 -> 20
                        [] d # Null /\ d > 30 /\ d <= 90 -> 10
                        [] d # Null /\ d > 90 /\ d <= 365 -> 0
                        [] d # Null /\ d > 365 -> 0 - 20
        releaseTerm == IF arg.repo.releaseAge \in 0..90 THEN 10 ELSE 0
        issuesTerm == IF arg.repo.hasIssuesEnabled /\ arg.repo.issues > 0 THEN 5 ELSE 0
        discussionsTerm == IF arg.repo.hasDiscussionsEnabled THEN 5 ELSE 0
        sum == 50 + commitTerm + releaseTerm + issuesTerm + discussionsTerm
    IN  /\ ret.healthScore = sum
        /\ sum \in 0..100

\* the score of a repository last committed to exactly 7 days ago, with a
\* recent release, open issues and discussions: every term earned, 100
C32_Witness ==
  /\ ret.healthScore = 100
  /\ ~arg.repo.isArchived /\ ~arg.repo.isDisabled
  /\ arg.daysSinceCommit = 7
  /\ arg.repo.releaseAge = 10

\* C33: an enrichment job passes from one repository to the next only out of
\* its pacing sleep, whatever became of the first of the two.
C33_PacingBetweenRepositories ==
  [][ (Len(rows) > 1 /\ rows' = Tail(rows))
        => wpc \in {"sleep", "activitySleep"} ]_vars

RowsOfCall(t) == InsertContributors({}, arg[t].contributors, arg[t].fallbackType, 1)

\* C35: once two overlapping contributor saves of a repository have both
\* committed, the stored set is exactly the set of one of them, and holds at
\* most topContributors rows.
C35_OverlappingSavesLeaveOneSet ==
  (DOMAIN ret = 1..2 /\ \A t \in 1..2 : ret[t].pc = "committed") =>
    /\ \E t \in 1..2 : repository_contributors[1] = RowsOfCall(t)
    /\ Cardinality(repository_contributors[1]) <= topContributors

\* C36: whatever the size of the pool and the number of jobs in progress, a
\* job that waits for a client is never left with no client idle and every
\* client of the pool held by a job that waits for one itself.
C36_NoJobWaitsOnWaitingJobs ==
  (\E j \in DOMAIN ret : ret[j].pc \in {"select", "saveConnect"})
    => \/ arg.max - HeldFrom(1) > 0
       \/ \E j \in DOMAIN ret : ret[j].pc = "saving"

\* C37: if from some point on no page attempt fails with a rate-limit or
\* transient error, every sync run in progress ends, done or aborted.
C37_RunsTerminate ==
  <>[][~(PageAttemptFails /\ Recoverable(serr'))]_vars
    => ((spc \notin {"idle", "done", "aborted"}) ~> (spc \in {"done", "aborted"}))

\* a comprehensive run has ended with its target reached, after the quick run
C37_Witness ==
  /\ spc = "done"
  /\ triggered = {"quick", "comprehensive"}
  /\ totalLimit = ComprehensiveLimit /\ fetchedTotal = totalLimit

\* C38: a sync run ends (other than by an error) only with its target reached,
\* or on a page for which the upstream reported no next page or returned fewer
\* nodes than were requested.
C38_RunStopsOnlyAtTargetOrEnd ==
  [][ (spc # "done" /\ spc' = "done") =>
        LET b == IF spc = "paging" THEN batch' ELSE batch
        IN  \/ fetchedTotal' >= totalLimit'
            \/ ~b.hasNext
            \/ b.nextCursor - cursor < b.remaining ]_vars

\* C39: when the page at hand holds a repository of an upstream id not stored
\* whose name a stored row has, the run's next step leaves the run aborted and
\* every table as it was before the page: nothing of the page is stored or
\* updated, the page is neither retried nor passed over.
C39_NameTakenAbortsRun ==
  [][ (spc = "fetched" /\ NameTaken(repositories, batch.repos) /\ spc' # spc)
        => /\ spc' = "aborted"
           /\ UNCHANGED <<dbVars, cursor, fetchedTotal>> ]_vars

\* a run has aborted on the constraint after it had stored an earlier page
C39_Witness ==
  /\ spc = "aborted"
  /\ serr = MsgDuplicate
  /\ fetchedTotal > 0

\* C40: a fallback request that fails with an error that is kept, on whatever
\* page, ends the fallback for the repository with the tallies dropped and
\* nothing handed to the save; no step from the fallback to the pacing delay
\* writes a table or the discriminator; and the delay after a repository for
\* which nothing was to be saved is followed by the next row of the job.
C40_FailedPageDiscardsTallies ==
  [][ /\ (wpc = "fallback" /\ fb'.error # NoError)
        => /\ wpc' = "sleep"
           /\ fb'.contributorsMap = << >>
           /\ pending' = NoPending
           /\ UNCHANGED <<dbVars, lastFetch, rows>>
      /\ (wpc = "fallback" /\ wpc' = "sleep") => UNCHANGED <<dbVars, lastFetch, rows>>
      /\ (wpc = "sleep" /\ fb.error # NoError /\ wpc' # wpc)
        => /\ rows' = Tail(rows)
           /\ Len(rows) > 1 => wpc' = "primary"
           /\ UNCHANGED <<dbVars, lastFetch>> ]_vars

\* the second page of a fallback has failed with a server error, for a
\* repository with stored all-time contributors and with another row to come
C40_Witness ==
  /\ wpc = "sleep"
  /\ fb.error = MsgBadGateway
  /\ fb.i >= 1 /\ fb.requests = fb.i + 1
  /\ pending = NoPending
  /\ Len(rows) > 1
  /\ repository_contributors[Head(rows).id] # {}
  /\ lastFetch[Head(rows).id] = "all_time"

\* the state after construction of the services: empty tables, no run, no job
Constructed ==
  /\ repositories = << >>
  /\ repository_languages = [id \in Repos |-> {}]
  /\ repository_stats = << >>
  /\ spc = "idle"
  /\ totalLimit = 0
  /\ cursor = 0
  /\ fetchedTotal = 0
  /\ batch = NoBatch
  /\ serr = NoError
  /\ triggered = {}
  /\ repository_contributors = [id \in Repos |-> {}]
  /\ wpc = "idle"
  /\ rows = << >>
  /\ fb = NoFallback
  /\ pending = NoPending
  /\ lastFetch = [id \in Repos |-> "none"]
  /\ upstream = "s1"
  /\ response = NoResponse
  /\ job = "none"
  /\ repository_commit_activity = [id \in Repos |-> {}]
  /\ activityResponse = NoActivity
  /\ res = [t \in Triggers |-> 0]
  /\ overlap = NoOverlap

NoCall == << >>

Init ==
  /\ Constructed
  /\ arg = NoCall
  /\ ret = NoCall

Next == SyncNext \/ WorkerNext \/ UpstreamChanges

Spec == Init /\ [][Next]_vars

\* the steps of a comprehensive sync run
ComprehensiveSync ==
  \/ StartSync("comprehensive")
  \/ FetchBatch
  \/ FetchBatchFails
  \/ BatchSave
  \/ BatchSaveFails
  \/ CalculateAndSaveStats
  \/ CalculateAndSaveStatsFails
  \/ PacingDone
  \/ BackoffDone

\* the steps of updateContributors and of updateCommitActivity
ContributorsSteps ==
  \/ PrimaryResponse
  \/ PrimaryFetchThrows
  \/ FallbackPage
  \/ FallbackNoHistory
  \/ FallbackFails
  \/ SaveContributors
  \/ SaveContributorsFails
  \/ WorkerPacingDone

ActivitySteps ==
  \/ ActivityResponse
  \/ ActivityFetchThrows
  \/ ActivitySave
  \/ ActivitySaveFails
  \/ ActivityPacingDone

\* two requests to update-contributors beside a comprehensive sync run
ContributorsNext ==
  \/ ComprehensiveSync
  \/ StartJob
  \/ StartJobFails
  \/ StartJobAgain
  \/ ContributorsSteps

ContributorsSpec == Init /\ [][ContributorsNext]_vars

\* two requests to update-commit-activity beside a comprehensive sync run
ActivityNext ==
  \/ ComprehensiveSync
  \/ StartActivityJob
  \/ StartActivityJobFails
  \/ StartActivityJobAgain
  \/ ActivitySteps

ActivitySpec == Init /\ [][ActivityNext]_vars

\* a request to run-all beside a comprehensive sync run
RunAllNext ==
  \/ ComprehensiveSync
  \/ StartRunAll
  \/ StartRunAllFails
  \/ ContributorsSteps
  \/ ActivitySelect
  \/ ActivitySelectFails
  \/ ActivitySteps

RunAllSpec == Init /\ [][RunAllNext]_vars

\* the two score functions called for one repository node
ScoreInit ==
  /\ Constructed
  /\ arg \in [repo : ScoreRepos, daysSinceCommit : ScoreDays]
  /\ ret = NoScores

ScoreNext == CallActivityScore \/ CallHealthScore

ScoreSpec == ScoreInit /\ [][ScoreNext]_vars

\* the listing route called over a stored table that does not change
ListingInit ==
  /\ Constructed
  /\ arg \in [table : ListedTables, limit : LimitParams]
  /\ ret = << >>

ListingNext == GetTopRepos \/ GetMoreTopRepos

ListingSpec == ListingInit /\ [][ListingNext]_vars

\* two calls of saveContributorsToDB for repository 1, not yet begun
SaveOverlapInit ==
  /\ Constructed
  /\ arg \in [1..2 -> SaveCalls]
  /\ ret = [t \in 1..2 |-> NoSave]

SaveOverlapNext ==
  \/ OverlapSaveDelete
  \/ OverlapSaveInsert
  \/ OverlapSaveCommit
  \/ OverlapSaveRollback

SaveOverlapSpec == SaveOverlapInit /\ [][SaveOverlapNext]_vars

\* a pool of arg.max clients and a number of triggered enrichment jobs
PoolInit ==
  /\ Constructed
  /\ arg \in [max : 1..MaxPool]
  /\ ret \in UNION {[1..n -> {NoJob}] : n \in 1..MaxJobs}

PoolNext ==
  \/ JobConnect
  \/ JobSelect
  \/ JobSkipRow
  \/ JobSaveCalled
  \/ JobSaveConnect
  \/ JobSaveRelease
  \/ JobReturn

PoolSpec == PoolInit /\ [][PoolNext]_vars

\* sync runs over an upstream whose repositories get renamed
RenameNext ==
  \/ SyncNext
  \/ BatchSaveNameTaken
  \/ UpstreamRenames

RenameSpec == Init /\ [][RenameNext]_vars

\* sync runs alone, each awaited step of a run in progress returning in the end
LiveSyncSpec ==
  /\ Init
  /\ [][SyncNext]_vars
  /\ WF_vars(FetchBatch \/ FetchBatchFails)
  /\ WF_vars(BatchSave \/ BatchSaveFails)
  /\ WF_vars(CalculateAndSaveStats \/ CalculateAndSaveStatsFails)
  /\ WF_vars(PacingDone)
  /\ WF_vars(BackoffDone)

\* a quick sync run, requests to update-contributors and requests to
\* update-commit-activity, all at once over the same rows
ConcurrentNext ==
  \/ StartSync("quick")
  \/ FetchBatch
  \/ BatchSave
  \/ CalculateAndSaveStats
  \/ PacingDone
  \/ StartJob
  \/ StartJobAgain
  \/ ContributorsSteps
  \/ OverlapActivityStart
  \/ OverlapActivityResponse
  \/ OverlapActivitySave
  \/ OverlapActivitySaveFails
  \/ OverlapActivityPacingDone

ConcurrentSpec == Init /\ [][ConcurrentNext]_vars
====
